---- MODULE Spec2Model ----
(***************************************************************************)
(* A model of the go-zkteco protocol engine: the framing codec, the        *)
(* transport (UDP datagrams, TCP stream with a reassembly buffer), the     *)
(* session engine (Connect, Disconnect, command), the bulk transfer        *)
(* sub-protocol (commandData, recvLargeData), the real-time event listener *)
(* (GetRealTimeEvents) and the TCPMUX tunnel (httpConnectHandshake).       *)
(*                                                                         *)
(* Packets are sequences of bytes (0..255), exactly as on the wire.  The   *)
(* device and the network are the environment: what the device sends back  *)
(* and how the network cuts a TCP stream into reads are inputs of the      *)
(* actions, drawn from small sets.                                         *)
(***************************************************************************)
EXTENDS Integers, Sequences, FiniteSets, TLC

(***************************************************************************)
(* Program constants                                                       *)
(***************************************************************************)
CMD_CONNECT == 1000
CMD_EXIT == 1001
CMD_ACK_OK == 2000
CMD_ACK_ERROR == 2001
CMD_ACK_DATA == 2002
CMD_ACK_UNAUTH == 2005
CMD_ACK_AUTH == 1102
CMD_PREPARE_DATA == 1500
CMD_DATA == 1501
CMD_REG_EVENT == 500
CMD_GET_TIME == 201
CMD_USER_TEMP_RRQ == 9
ushrtMax == 65535
InitialReplyID == 65534
MaxReadAttempts == 50
EF_ATTLOG == 1
EF_FINGER == 2
EF_VERIFY == 128
EF_ENROLLUSER == 4
EF_ENROLLFINGER == 8
EF_BUTTON == 16
EF_UNLOCK == 32
EF_FPFTR == 256
EF_ALARM == 512
\* the read timeout of the event loop (1 second), in the unit of time of the
\* model, half a second
OneSecond == 2

\* tcpMagic is the TCP framing header
tcpMagic == <<80, 80, 130, 125>>

(***************************************************************************)
(* Bytes and little-endian integers (encoding/binary.LittleEndian)         *)
(***************************************************************************)
Byte == 0..255

Min(a, b) == IF a < b THEN a ELSE b

\* Body with x bound to the value of an expression (a local variable of the
\* source), evaluated once
Let(x, Body(_)) == CHOOSE r \in {Body(y) : y \in {x}} : TRUE

\* s[from+1 .. to] in TLA+ indexing is the Go slice s[from:to]
Slice(s, from, to) == SubSeq(s, from + 1, to)

Uint16(b) == b[1] + 256 * b[2]

PutUint16(v) == <<v % 256, (v \div 256) % 256>>

\* The values of the model keep the top byte below 128, so that the 32-bit
\* value fits the model checker's integers.
Uint32(b) == b[1] + 256 * b[2] + 65536 * b[3] + 16777216 * b[4]

PutUint32(v) == <<v % 256, (v \div 256) % 256, (v \div 65536) % 256, (v \div 16777216) % 256>>

\* a & b on non-negative integers
RECURSIVE BitAnd(_, _)
BitAnd(a, b) ==
    IF a = 0 \/ b = 0 THEN 0
    ELSE (a % 2) * (b % 2) + 2 * BitAnd(a \div 2, b \div 2)

RECURSIVE XorBits(_, _, _)
XorBits(a, b, n) ==
    IF n = 0 THEN 0
    ELSE ((a + b) % 2) + 2 * XorBits(a \div 2, b \div 2, n - 1)

\* a ^ b on bytes
Xor(a, b) == XorBits(a, b, 8)

(***************************************************************************)
(* Framing codec                                                           *)
(***************************************************************************)
\* parsePacket: ok is FALSE for the "packet too short" error
parsePacket(data) ==
    IF Len(data) < 8
    THEN [ok |-> FALSE, Command |-> 0, Checksum |-> 0, SessionID |-> 0, ReplyID |-> 0, Data |-> <<>>]
    ELSE [ok |-> TRUE,
          Command |-> Uint16(Slice(data, 0, 2)),
          Checksum |-> Uint16(Slice(data, 2, 4)),
          SessionID |-> Uint16(Slice(data, 4, 6)),
          ReplyID |-> Uint16(Slice(data, 6, 8)),
          Data |-> Slice(data, 8, Len(data))]

\* the word loop of calculateChecksum: for i := 0; i < length-1; i += 2
RECURSIVE ChecksumWords(_, _, _)
ChecksumWords(data, i, chksum) ==
    IF i < Len(data) - 1
    THEN LET val == Uint16(Slice(data, i, i + 2))
             sum == chksum + val
         IN ChecksumWords(data, i + 2, IF sum > ushrtMax THEN sum - ushrtMax ELSE sum)
    ELSE chksum

\* for chksum > ushrtMax { chksum -= ushrtMax }
RECURSIVE ReduceAbove(_)
ReduceAbove(chksum) == IF chksum > ushrtMax THEN ReduceAbove(chksum - ushrtMax) ELSE chksum

\* for chksum < 0 { chksum += ushrtMax }
RECURSIVE RaiseBelow(_)
RaiseBelow(chksum) == IF chksum < 0 THEN RaiseBelow(chksum + ushrtMax) ELSE chksum

\* a checksum that leaves out the trailing byte of an odd length
calculateChecksum_EvenOnly(data) ==
    LET red == ReduceAbove(ChecksumWords(data, 0, 0))
        neg == IF red > 0 THEN -red ELSE red
    IN RaiseBelow(neg - 1) % 65536

calculateChecksum(data) ==
    LET words == ChecksumWords(data, 0, 0)
        odd == IF Len(data) % 2 # 0 THEN words + data[Len(data)] ELSE words
        red == ReduceAbove(odd)
        neg == IF red > 0 THEN -red ELSE red
    IN RaiseBelow(neg - 1) % 65536

\* a successor that only wraps with the 16 bits
NextReplyID_Uint16(replyID) == (replyID + 1) % 65536

\* nextReplyID := replyID + 1 in uint16, wrapping at ushrtMax
NextReplyID(replyID) ==
    LET n == (replyID + 1) % 65536
    IN IF n >= ushrtMax THEN n - ushrtMax ELSE n

\* a createHeader whose checksum covers the packet as it is sent
createHeader_ChecksumOfSent(cmd, sid, rid, data) ==
    LET nextReplyID == NextReplyID(rid)
        buf1 == PutUint16(cmd) \o PutUint16(0) \o PutUint16(sid) \o PutUint16(nextReplyID)
                    \o data
    IN [pkt |-> PutUint16(cmd) \o PutUint16(calculateChecksum(buf1)) \o PutUint16(sid)
                    \o PutUint16(nextReplyID) \o data,
        next |-> nextReplyID]

\* createHeader: the packet and the next replyID
createHeader(cmd, sid, rid, data) ==
    LET buf0 == PutUint16(cmd) \o PutUint16(0) \o PutUint16(sid) \o PutUint16(rid) \o data
        checksum == calculateChecksum(buf0)
        nextReplyID == NextReplyID(rid)
    IN [pkt |-> PutUint16(cmd) \o PutUint16(checksum) \o PutUint16(sid)
                    \o PutUint16(nextReplyID) \o data,
        next |-> nextReplyID]

\* A uint32 is kept as two halves of 16 bits, value hi * 65536 + lo, so that
\* no intermediate result exceeds the integers of the model checker.
\* v / k and v % k for 0 < k < 32768
DivMod32(v, k) ==
    LET low == (v.hi % k) * 65536 + v.lo
    IN [q |-> [hi |-> v.hi \div k, lo |-> low \div k], r |-> low % k]

\* encodeTime: the packed timestamp of the fields of t, as uint32.
\* days * 86400 is days * 65536 + days * 20864.
encodeTime(t) ==
    LET days == (t.year % 100) * 12 * 31 + (t.month - 1) * 31 + t.day - 1
        low == days * 20864 + (t.hour * 60 + t.minute) * 60 + t.second
    IN [hi |-> (days + low \div 65536) % 65536, lo |-> low % 65536]

\* time.Date(..., time.Local): a wall-clock reading that the local zone skips
\* (a daylight-saving transition) is normalised to a time of one of the two
\* zones of the transition, an hour earlier or later; which is not guaranteed.
LocalDate(f, zone) ==
    IF <<f.year, f.month, f.day, f.hour>> \in zone.skipped
    THEN {[f EXCEPT !.hour = @ - 1], [f EXCEPT !.hour = @ + 1]}
    ELSE {f}

\* decodeTime: the times it may return for the packed timestamp v on a host
\* whose local zone is `zone`
decodeTime(v, zone) ==
    LET s == DivMod32(v, 60)
        mi == DivMod32(s.q, 60)
        h == DivMod32(mi.q, 24)
        d == DivMod32(h.q, 31)
        mo == DivMod32(d.q, 12)
    IN LocalDate([year |-> mo.q.hi * 65536 + mo.q.lo + 2000, month |-> mo.r + 1,
                  day |-> d.r + 1, hour |-> h.r, minute |-> mi.r, second |-> s.r], zone)

wrapTCP(packet) == tcpMagic \o PutUint32(Len(packet)) \o packet

\* extractTCPPacket forgetting the bytes that follow the frame
extractTCPPacket_DropRest(buf) ==
    IF Len(buf) < 8 \/ SubSeq(buf, 1, 4) # tcpMagic \/ Len(buf) < 8 + Uint32(Slice(buf, 4, 8))
    THEN [payload |-> <<>>, remainder |-> buf, ok |-> FALSE]
    ELSE [payload |-> Slice(buf, 8, 8 + Uint32(Slice(buf, 4, 8))),
          remainder |-> <<>>, ok |-> TRUE]

\* extractTCPPacket taking what there is of a frame that is not whole yet
extractTCPPacket_Partial(buf) ==
    IF Len(buf) < 8 \/ SubSeq(buf, 1, 4) # tcpMagic
    THEN [payload |-> <<>>, remainder |-> buf, ok |-> FALSE]
    ELSE LET totalLen == Min(8 + Uint32(Slice(buf, 4, 8)), Len(buf))
         IN [payload |-> Slice(buf, 8, totalLen),
             remainder |-> Slice(buf, totalLen, Len(buf)), ok |-> TRUE]

\* extractTCPPacket: (payload, remainder, ok)
extractTCPPacket(buf) ==
    IF Len(buf) < 8
    THEN [payload |-> <<>>, remainder |-> buf, ok |-> FALSE]
    ELSE IF buf[1] # 80 \/ buf[2] # 80 \/ buf[3] # 130 \/ buf[4] # 125
    THEN [payload |-> <<>>, remainder |-> buf, ok |-> FALSE]
    ELSE LET payloadLen == Uint32(Slice(buf, 4, 8))
             totalLen == 8 + payloadLen
         IN IF Len(buf) < totalLen
            THEN [payload |-> <<>>, remainder |-> buf, ok |-> FALSE]
            ELSE [payload |-> Slice(buf, 8, totalLen),
                  remainder |-> Slice(buf, totalLen, Len(buf)),
                  ok |-> TRUE]

\* bit i of a password below 2^31
KeyBit(key, i) == IF i >= 31 THEN 0 ELSE (key \div (2 ^ i)) % 2

\* the bit-reversal loop of makeCommKey; k is kept as two 16-bit halves
RECURSIVE ReverseBits(_, _, _, _)
ReverseBits(key, i, hi, lo) ==
    IF i >= 32 THEN [hi |-> hi, lo |-> lo]
    ELSE ReverseBits(key, i + 1,
                     (2 * hi + (lo \div 32768)) % 65536,
                     ((2 * lo) % 65536) + KeyBit(key, i))

\* a key whose two 16-bit halves are not swapped
makeCommKey_NoSwap(key, sid) ==
    LET k == ReverseBits(key, 0, 0, 0)
        lo == (k.lo + sid) % 65536
        hi == (k.hi + ((k.lo + sid) \div 65536)) % 65536
        b == PutUint16(lo) \o PutUint16(hi)
        x == <<Xor(b[1], 90), Xor(b[2], 75), Xor(b[3], 83), Xor(b[4], 79)>>
        mask == 50
    IN <<Xor(x[1], mask), Xor(x[2], mask), mask, Xor(x[4], mask)>>

makeCommKey(key, sid) ==
    LET k == ReverseBits(key, 0, 0, 0)
        lo == (k.lo + sid) % 65536
        hi == (k.hi + ((k.lo + sid) \div 65536)) % 65536
        b == PutUint16(lo) \o PutUint16(hi)
        x == <<Xor(b[1], 90), Xor(b[2], 75), Xor(b[3], 83), Xor(b[4], 79)>>
        s == <<x[3], x[4], x[1], x[2]>>
        mask == 50
    IN <<Xor(s[1], mask), Xor(s[2], mask), mask, Xor(s[4], mask)>>

(***************************************************************************)
(* State                                                                   *)
(***************************************************************************)
VARIABLES
    protocol,       \* z.protocol: "tcp" or "udp"
    tcpmuxEnabled,  \* z.tcpmuxEnabled
    password,       \* z.password
    conn,           \* z.conn: "nil", "open", "closed" (a closed socket still referenced)
                    \* or "reset" (an open socket whose peer has reset the connection)
    sessionID,      \* z.sessionID
    replyID,        \* z.replyID
    lastData,       \* z.lastData
    tcpBuffer,      \* z.tcpBuffer
    wire,           \* what the socket can read now: datagrams (udp) or the byte
                    \* chunks successive Read calls return (tcp)
    transit,        \* what the device has sent and the network has not delivered yet
    owner,          \* history: for each frame of wire and transit, in order, 1 if
                    \* it answers the exchange in progress, 0 if it is unsolicited
                    \* or answers an earlier exchange
    adopted,        \* history: the code and session id of the CONNECT response of
                    \* the session in progress (NoSession when there is none)
    ret,            \* the outcome of the last call: [op, err, resp]
    xlog,           \* history: one record per exchange the last call performed
    calls,          \* the number of calls made
    tcp,            \* history of a TCP stream (SpecTCP): the payloads of the frames the
                    \* device sent, whether all are valid frames, the payloads the
                    \* receive calls returned, the buffer before the last call
    rt,             \* the call of GetRealTimeEvents (SpecRT): its position (pc), the
                    \* event mask and overall timeout, the seconds elapsed since the
                    \* loop started, and history of the last iteration of the loop:
                    \* the receive error, the frame received, the handler invoked;
                    \* of the last read: its deadline and the time it was set at;
                    \* and whether the peer has reset the connection
    tunnel,         \* history of the last Connect through a TCPMUX proxy: what the
                    \* proxy answered, the handshake's error, and whether the
                    \* socket dialled was closed
    app,            \* the last application of a pure function of the codec (the
                    \* specifications of the pure functions): its name, its
                    \* arguments and its result
    sent,           \* history of a session (SpecSeq): the replyID fields transmitted
                    \* by its successful exchanges, in order
    leaked,         \* history: a socket the instance dialled is neither closed nor
                    \* the one z.conn refers to
    bulk            \* a call of commandData in progress in the chunk loop of
                    \* recvLargeData (SpecChunks): its position (pc) and the
                    \* locals totalSize, allData, received and first

vars == <<protocol, tcpmuxEnabled, password, conn, sessionID, replyID, lastData,
          tcpBuffer, wire, transit, owner, adopted, ret, xlog, calls, tcp, rt,
          tunnel, app, sent, leaked, bulk>>

config == <<protocol, tcpmuxEnabled, password>>

\* The engine and its socket as one value, threaded through the operators
Machine ==
    [protocol |-> protocol, tcpmuxEnabled |-> tcpmuxEnabled, conn |-> conn, sessionID |-> sessionID, replyID |-> replyID,
     lastData |-> lastData, tcpBuffer |-> tcpBuffer, wire |-> wire, transit |-> transit,
     owner |-> owner]

IsTCP(m) == m.protocol = "tcp"

RECURSIVE Flatten(_)
Flatten(ss) == IF ss = <<>> THEN <<>> ELSE Head(ss) \o Flatten(Tail(ss))

(***************************************************************************)
(* Transport                                                               *)
(***************************************************************************)
\* sendData: err is "" on success.  writeOk is the outcome of conn.Write on
\* an open socket.
sendData(m, data, writeOk) ==
    IF m.conn = "nil" THEN [err |-> "not connected", sent |-> <<>>]
    ELSE IF m.conn \in {"closed", "reset"} \/ ~writeOk THEN [err |-> "write", sent |-> <<>>]
    ELSE [err |-> "", sent |-> IF IsTCP(m) THEN wrapTCP(data) ELSE data]

\* A frame handed to the caller leaves the wire: its owner is popped.
PopOwner(m) == [m EXCEPT !.owner = IF m.owner = <<>> THEN <<>> ELSE Tail(m.owner)]

HeadOwner(m) == IF m.owner = <<>> THEN -1 ELSE Head(m.owner)

\* The error of conn.Read when nothing is left to read: a timeout at the
\* deadline, or a read error once the peer has reset the connection.
ReadError(m) == IF m.conn = "reset" THEN "read" ELSE "timeout"

\* One conn.Read on an open socket: the next datagram or chunk, or a timeout
\* when nothing arrives before the deadline.
recvUDP(m) ==
    IF m.conn = "closed" THEN [m |-> m, resp |-> <<>>, err |-> "read", tag |-> -1]
    ELSE IF m.wire = <<>> THEN [m |-> m, resp |-> <<>>, err |-> ReadError(m), tag |-> -1]
    ELSE [m |-> PopOwner([m EXCEPT !.wire = Tail(m.wire)]),
          resp |-> Head(m.wire), err |-> "", tag |-> HeadOwner(m)]

\* recvTCP: extract a frame from the buffer, else read and append, and again
RECURSIVE recvTCP(_)
recvTCP(m) ==
    Let(extractTCPPacket(m.tcpBuffer), LAMBDA x :
       IF x.ok
       THEN [m |-> PopOwner([m EXCEPT !.tcpBuffer = x.remainder]),
             resp |-> x.payload, err |-> "", tag |-> HeadOwner(m)]
       ELSE IF m.conn = "closed" THEN [m |-> m, resp |-> <<>>, err |-> "read", tag |-> -1]
       ELSE IF m.wire = <<>> THEN [m |-> m, resp |-> <<>>, err |-> ReadError(m), tag |-> -1]
       ELSE recvTCP([m EXCEPT !.tcpBuffer = m.tcpBuffer \o Head(m.wire),
                              !.wire = Tail(m.wire)]))

\* readNextTCPPayload: the same loop, at most MaxReadAttempts times
RECURSIVE readNextTCPPayload(_, _)
readNextTCPPayload(m, attempts) ==
    IF attempts >= MaxReadAttempts
    THEN [m |-> m, resp |-> <<>>, err |-> "exceeded max attempts", tag |-> -1]
    ELSE Let(extractTCPPacket(m.tcpBuffer), LAMBDA x :
            IF x.ok
            THEN [m |-> PopOwner([m EXCEPT !.tcpBuffer = x.remainder]),
                  resp |-> x.payload, err |-> "", tag |-> HeadOwner(m)]
            ELSE IF m.conn = "closed" THEN [m |-> m, resp |-> <<>>, err |-> "read", tag |-> -1]
            ELSE IF m.wire = <<>> THEN [m |-> m, resp |-> <<>>, err |-> ReadError(m), tag |-> -1]
            ELSE readNextTCPPayload([m EXCEPT !.tcpBuffer = m.tcpBuffer \o Head(m.wire),
                                              !.wire = Tail(m.wire)], attempts + 1))

recvData(m) ==
    IF m.conn = "nil" THEN [m |-> m, resp |-> <<>>, err |-> "not connected", tag |-> -1]
    ELSE IF IsTCP(m) THEN recvTCP(m)
    ELSE recvUDP(m)

(***************************************************************************)
(* The device and the network (environment)                                *)
(***************************************************************************)
\* A frame the device sends for a request: t.sid and t.rid are numbers, or -1
\* for the value of the request; t.len cuts the frame short (-1: whole).
DeviceFrame(t, req) ==
    Let(parsePacket(req), LAMBDA r :
    Let(PutUint16(t.cmd) \o PutUint16(0)
           \o PutUint16(IF t.sid = -1 THEN r.SessionID ELSE t.sid)
           \o PutUint16(IF t.rid = -1 THEN r.ReplyID ELSE t.rid) \o t.data, LAMBDA f :
       IF t.len = -1 THEN f ELSE Slice(f, 0, t.len)))

DeviceFrames(ts, req) == [i \in 1..Len(ts) |-> DeviceFrame(ts[i], req)]

\* What the socket will read: the datagrams, or (on a socket dialled with
\* "tcp": protocol tcp, or the tunnel) the TCP stream cut at `cut` (0: delivered
\* as one chunk).
Units(m, frames, cut) ==
    IF ~(IsTCP(m) \/ m.tcpmuxEnabled) THEN frames
    ELSE Let(Flatten([i \in 1..Len(frames) |-> wrapTCP(frames[i])]), LAMBDA bytes :
            IF bytes = <<>> THEN <<>>
            ELSE IF cut <= 0 \/ cut >= Len(bytes) THEN <<bytes>>
            ELSE <<Slice(bytes, 0, cut), Slice(bytes, cut, Len(bytes))>>)

\* The device answers a request with `frames` (env.frames filled in); the first
\* env.arrive units reach the socket before the read deadline (with everything
\* sent earlier), the rest stay in transit.  With env.reset the peer resets the
\* connection after that.
Device(m, frames, env) ==
    Let(Units(m, frames, env.cut), LAMBDA units :
    Let(Min(env.arrive, Len(units)), LAMBDA n :
       [m EXCEPT !.conn = IF env.reset THEN "reset" ELSE m.conn,
                 !.owner = m.owner \o [i \in 1..Len(frames) |->
                                          IF env.frames[i].re THEN 1 ELSE 0],
                 !.wire = IF n = 0 THEN m.wire
                          ELSE m.wire \o m.transit \o SubSeq(units, 1, n),
                 !.transit = IF n = 0 THEN m.transit \o units
                             ELSE SubSeq(units, n + 1, Len(units))]))

(***************************************************************************)
(* Session engine                                                          *)
(***************************************************************************)
\* the session check left out
SessionMismatch_Unchecked(m, resp) == FALSE

\* the session check made on the reply-id field instead of the session-id field
SessionMismatch_ReplyField(m, resp) ==
    /\ m.sessionID # 0
    /\ Len(resp) >= 8
    /\ Uint16(Slice(resp, 6, 8)) # m.sessionID

\* the session check of command: the response carries another session id
SessionMismatch(m, resp) ==
    /\ m.sessionID # 0
    /\ Len(resp) >= 6
    /\ Uint16(Slice(resp, 4, 6)) # m.sessionID

\* the stored replyID, whatever the last response carried
primeReplyID_Stored(m) == m.replyID

\* the replyID an exchange starts from: the one in bytes 6..8 of the last
\* response when there is one of at least 8 bytes, else the stored one
primeReplyID(m) ==
    IF Len(m.lastData) >= 8 THEN Uint16(Slice(m.lastData, 6, 8)) ELSE m.replyID

\* a command that takes the session id of each response as its own
command_AdoptSession(m, cmd, data, cmdType, env) ==
    Let([m EXCEPT !.replyID = primeReplyID(m),
                  !.owner = [i \in DOMAIN m.owner |-> 0]], LAMBDA m0 :
    Let(createHeader(cmd, m0.sessionID, m0.replyID, data), LAMBDA h :
    Let(sendData(m0, h.pkt, env.writeOk), LAMBDA s :
    Let(IF s.err = "" THEN DeviceFrames(env.frames, h.pkt) ELSE <<>>, LAMBDA answer :
    Let([cmd |-> cmd, cmdType |-> cmdType, data |-> data,
         sid |-> m0.sessionID, rid |-> m0.replyID, next |-> h.next, pkt |-> h.pkt,
         sent |-> s.sent, preReplyID |-> m.replyID, preLastData |-> m.lastData,
         got |-> FALSE, raw |-> <<>>, tag |-> -1, err |-> s.err, resp |-> <<>>,
         answer |-> answer,
         arrived |-> env.arrive >= Len(Units(m0, answer, env.cut)),
         backlog |-> Len(m.owner), preConn |-> m.conn,
         postReplyID |-> m0.replyID, postLastData |-> m0.lastData], LAMBDA x0 :
       IF s.err # ""
       THEN [m |-> m0, resp |-> <<>>, err |-> s.err, x |-> x0]
       ELSE
       Let(recvData(Device(m0, answer, env)), LAMBDA r :
          IF r.err # ""
          THEN [m |-> r.m, resp |-> <<>>, err |-> r.err,
                x |-> [x0 EXCEPT !.err = r.err, !.postReplyID = r.m.replyID,
                                 !.postLastData = r.m.lastData]]
          ELSE
          Let([r.m EXCEPT !.replyID = h.next, !.lastData = r.resp,
                          !.sessionID = IF Len(r.resp) >= 6
                                        THEN Uint16(Slice(r.resp, 4, 6)) ELSE @], LAMBDA m1 :
          Let([x0 EXCEPT !.got = TRUE, !.raw = r.resp, !.tag = r.tag,
                         !.resp = r.resp, !.postReplyID = m1.replyID,
                         !.postLastData = m1.lastData], LAMBDA x1 :
             IF cmdType = "data"
             THEN [m |-> m1, resp |-> r.resp, err |-> "", x |-> x1]
             ELSE IF SessionMismatch(m1, r.resp)
             THEN [m |-> m1, resp |-> <<>>, err |-> "session mismatch",
                   x |-> [x1 EXCEPT !.err = "session mismatch", !.resp = <<>>]]
             ELSE [m |-> m1, resp |-> r.resp, err |-> "", x |-> x1]))))))))

\* command sends a command and receives the response.  The result carries the
\* new machine, the response and error returned, and the history record x.
command(m, cmd, data, cmdType, env) ==
    Let([m EXCEPT !.replyID = primeReplyID(m),
                  !.owner = [i \in DOMAIN m.owner |-> 0]], LAMBDA m0 :
    Let(createHeader(cmd, m0.sessionID, m0.replyID, data), LAMBDA h :
    Let(sendData(m0, h.pkt, env.writeOk), LAMBDA s :
    Let(IF s.err = "" THEN DeviceFrames(env.frames, h.pkt) ELSE <<>>, LAMBDA answer :
    Let([cmd |-> cmd, cmdType |-> cmdType, data |-> data,
         sid |-> m0.sessionID, rid |-> m0.replyID, next |-> h.next, pkt |-> h.pkt,
         sent |-> s.sent, preReplyID |-> m.replyID, preLastData |-> m.lastData,
         got |-> FALSE, raw |-> <<>>, tag |-> -1, err |-> s.err, resp |-> <<>>,
         answer |-> answer,
         arrived |-> env.arrive >= Len(Units(m0, answer, env.cut)),
         backlog |-> Len(m.owner), preConn |-> m.conn,
         postReplyID |-> m0.replyID, postLastData |-> m0.lastData], LAMBDA x0 :
       IF s.err # ""
       THEN [m |-> m0, resp |-> <<>>, err |-> s.err, x |-> x0]
       ELSE
       Let(recvData(Device(m0, answer, env)), LAMBDA r :
          IF r.err # ""
          THEN [m |-> r.m, resp |-> <<>>, err |-> r.err,
                x |-> [x0 EXCEPT !.err = r.err, !.postReplyID = r.m.replyID,
                                 !.postLastData = r.m.lastData]]
          ELSE
          Let([r.m EXCEPT !.replyID = h.next, !.lastData = r.resp], LAMBDA m1 :
          Let([x0 EXCEPT !.got = TRUE, !.raw = r.resp, !.tag = r.tag,
                         !.resp = r.resp, !.postReplyID = m1.replyID,
                         !.postLastData = m1.lastData], LAMBDA x1 :
             IF cmdType = "data"
             THEN [m |-> m1, resp |-> r.resp, err |-> "", x |-> x1]
             ELSE IF SessionMismatch(m1, r.resp)
             THEN [m |-> m1, resp |-> <<>>, err |-> "session mismatch",
                   x |-> [x1 EXCEPT !.err = "session mismatch", !.resp = <<>>]]
             ELSE [m |-> m1, resp |-> r.resp, err |-> "", x |-> x1]))))))))

\* the key computed before the session id is adopted
AuthKey_BeforeAdoption(m, pw) == makeCommKey(pw, 0)

\* the payload of the AUTH command
AuthKey(m, pw) == makeCommKey(pw, m.sessionID)

\* an error path that returns without closing the socket
Close_LeftOpen(m) == m

\* conn.Close(): what the socket held or was about to receive is gone
Close(m) == [m EXCEPT !.conn = "closed", !.wire = <<>>, !.transit = <<>>, !.owner = <<>>]

\* Text is a sequence of characters.  strings.TrimSpace: the text without its
\* leading and trailing white space
WhiteSpace == {" ", "\t", "\r", "\n"}

RECURSIVE TrimLeft(_)
TrimLeft(s) == IF s # <<>> /\ Head(s) \in WhiteSpace THEN TrimLeft(Tail(s)) ELSE s

RECURSIVE TrimRight(_)
TrimRight(s) ==
    IF s # <<>> /\ s[Len(s)] \in WhiteSpace THEN TrimRight(SubSeq(s, 1, Len(s) - 1)) ELSE s

TrimSpace(s) == TrimRight(TrimLeft(s))

\* strings.Contains
Contains(s, sub) == \E i \in 0..(Len(s) - Len(sub)) : Slice(s, i, i + Len(sub)) = sub

\* bufio.Reader.ReadString('\n') on what the proxy sends before the read
\* deadline: the text up to and including the first newline, or an error
ReadString(s) ==
    IF \E i \in 1..Len(s) : s[i] = "\n"
    THEN Let(CHOOSE i \in 1..Len(s) : s[i] = "\n" /\ \A j \in 1..(i - 1) : s[j] # "\n",
             LAMBDA i : [ok |-> TRUE, line |-> SubSeq(s, 1, i),
                         rest |-> SubSeq(s, i + 1, Len(s))])
    ELSE [ok |-> FALSE, line |-> s, rest |-> <<>>]

\* the loop reading the remaining headers until a blank line
RECURSIVE ReadHeaders(_)
ReadHeaders(s) ==
    Let(ReadString(s), LAMBDA l :
       IF ~l.ok THEN FALSE
       ELSE IF TrimSpace(l.line) = <<>> THEN TRUE
       ELSE ReadHeaders(l.rest))

\* a handshake that does not look at the status line
httpConnectHandshake_AnyStatus(p) ==
    IF ~p.writeOk THEN "send CONNECT request"
    ELSE IF ~ReadString(p.stream).ok THEN "read proxy response"
    ELSE IF ~ReadHeaders(ReadString(p.stream).rest) THEN "read proxy headers"
    ELSE ""

\* httpConnectHandshake: p.writeOk is the outcome of writing the CONNECT
\* request, p.stream what the proxy answers.  The result is the error ("": none)
httpConnectHandshake(p) ==
    IF ~p.writeOk THEN "send CONNECT request"
    ELSE Let(ReadString(p.stream), LAMBDA statusLine :
            IF ~statusLine.ok THEN "read proxy response"
            ELSE IF ~ReadHeaders(statusLine.rest) THEN "read proxy headers"
            ELSE IF ~Contains(TrimSpace(statusLine.line), <<" ", "2", "0", "0", " ">>)
            THEN "proxy returned"
            ELSE "")

\* z.conn, err = net.DialTimeout(...): Connect assigns z.conn without closing
\* the socket it refers to; an open one stays open with no reference left
Overwritten(m) == m.conn \in {"open", "reset"}

\* Connect.  env.dialOk is the outcome of net.DialTimeout and env.proxy the
\* proxy's part in httpConnectHandshake; env.e1 and env.e2 are the environment
\* of the CONNECT and of the AUTH exchange.  A dial gives a new socket: nothing
\* to read yet.  A failed handshake closes the socket dialled and forgets it.
Connect(m, mux, pw, env) ==
    Let([m EXCEPT !.wire = <<>>, !.transit = <<>>, !.owner = <<>>], LAMBDA fresh :
    Let(IF mux /\ env.dialOk THEN httpConnectHandshake(env.proxy) ELSE "", LAMBDA hsErr :
    Let(IF mux /\ env.dialOk
        THEN [stream |-> env.proxy.stream, writeOk |-> env.proxy.writeOk, err |-> hsErr,
              closed |-> hsErr # ""]
        ELSE [stream |-> <<>>, writeOk |-> FALSE, err |-> "", closed |-> FALSE], LAMBDA tun :
       IF ~env.dialOk
       THEN [m |-> [fresh EXCEPT !.conn = "nil"], err |-> "dial", resp |-> <<>>,
             tunnel |-> tun, overwritten |-> Overwritten(m),
             xs |-> <<>>]
       ELSE IF hsErr # ""
       THEN [m |-> [fresh EXCEPT !.conn = "nil"], err |-> "tcpmux handshake",
             resp |-> <<>>, tunnel |-> tun, overwritten |-> Overwritten(m),
             xs |-> <<>>]
       ELSE
       Let(command([fresh EXCEPT !.conn = "open", !.sessionID = 0,
                                 !.replyID = InitialReplyID, !.tcpBuffer = <<>>],
                   CMD_CONNECT, <<>>, "general", env.e1), LAMBDA c1 :
       Let(parsePacket(c1.resp), LAMBDA pkt :
          IF c1.err # ""
          THEN [m |-> Close(c1.m), err |-> "connect command",
                resp |-> <<>>, tunnel |-> tun, overwritten |-> Overwritten(m),
                xs |-> <<c1.x>>]
          ELSE IF ~pkt.ok
          THEN [m |-> Close(c1.m), err |-> "parse connect response",
                resp |-> <<>>, tunnel |-> tun, overwritten |-> Overwritten(m),
                xs |-> <<c1.x>>]
          ELSE
          Let([c1.m EXCEPT !.sessionID = pkt.SessionID], LAMBDA m1 :
             IF pkt.Command # CMD_ACK_UNAUTH
             THEN [m |-> m1, err |-> "", resp |-> <<>>, tunnel |-> tun, overwritten |-> Overwritten(m),
                   xs |-> <<c1.x>>]
             ELSE
             Let(command(m1, CMD_ACK_AUTH, AuthKey(m1, pw), "general", env.e2), LAMBDA c2 :
             Let(parsePacket(c2.resp), LAMBDA pkt2 :
                IF c2.err # ""
                THEN [m |-> Close(c2.m), err |-> "auth command",
                      resp |-> <<>>, tunnel |-> tun, overwritten |-> Overwritten(m),
                      xs |-> <<c1.x, c2.x>>]
                ELSE IF ~pkt2.ok
                THEN [m |-> Close(c2.m), err |-> "parse auth response",
                      resp |-> <<>>, tunnel |-> tun, overwritten |-> Overwritten(m),
                      xs |-> <<c1.x, c2.x>>]
                ELSE IF pkt2.Command # CMD_ACK_OK
                THEN [m |-> Close(c2.m), err |-> "authentication failed",
                      resp |-> <<>>, tunnel |-> tun, overwritten |-> Overwritten(m),
                      xs |-> <<c1.x, c2.x>>]
                ELSE [m |-> c2.m, err |-> "", resp |-> <<>>, tunnel |-> tun, overwritten |-> Overwritten(m),
                      xs |-> <<c1.x, c2.x>>]))))))))

\* a Disconnect that returns the error of the EXIT command
Disconnect_ReturnExitError(m, env) ==
    IF m.conn = "nil" THEN [m |-> m, err |-> "", resp |-> <<>>, xs |-> <<>>]
    ELSE Let(command(m, CMD_EXIT, <<>>, "general", env), LAMBDA c :
            [m |-> [Close(c.m) EXCEPT !.sessionID = 0, !.conn = "nil"],
             err |-> c.err, resp |-> <<>>, xs |-> <<c.x>>])

\* Disconnect.  Closing a socket that a failed Connect already closed is an
\* error of Close, which Disconnect returns.
Disconnect(m, env) ==
    IF m.conn = "nil" THEN [m |-> m, err |-> "", resp |-> <<>>, xs |-> <<>>]
    ELSE Let(command(m, CMD_EXIT, <<>>, "general", env), LAMBDA c :
            [m |-> [Close(c.m) EXCEPT !.sessionID = 0, !.conn = "nil"],
             err |-> IF m.conn = "closed" THEN "close" ELSE "",
             resp |-> <<>>, xs |-> <<c.x>>])

(***************************************************************************)
(* Bulk transfer                                                           *)
(***************************************************************************)
\* One chunk of recvLargeData: the next TCP frame or the next datagram
recvChunk(m) == IF IsTCP(m) THEN readNextTCPPayload(m, 0) ELSE recvUDP(m)

\* the chunk loop stripping 8 bytes from the first chunk as from the others
RECURSIVE ChunkLoop_StripAll(_, _, _, _, _, _)
ChunkLoop_StripAll(m, totalSize, allData, received, first, chunks) ==
    IF ~(received < totalSize)
    THEN [m |-> m, err |-> "", allData |-> allData, chunks |-> chunks]
    ELSE Let(recvChunk(m), LAMBDA r :
         Let(Len(r.resp), LAMBDA n :
            IF r.err # ""
            THEN [m |-> r.m, err |-> "receive chunk", allData |-> <<>>, chunks |-> chunks]
            ELSE IF n > 8
            THEN ChunkLoop_StripAll(r.m, totalSize, allData \o Slice(r.resp, 8, n),
                                    received + (n - 8), FALSE, Append(chunks, r.resp))
            ELSE ChunkLoop_StripAll(r.m, totalSize, allData \o r.resp,
                                    received + n, FALSE, Append(chunks, r.resp))))

\* the chunk loop taking nothing from a later chunk of 8 bytes or fewer
RECURSIVE ChunkLoop_DropShort(_, _, _, _, _, _)
ChunkLoop_DropShort(m, totalSize, allData, received, first, chunks) ==
    IF ~(received < totalSize)
    THEN [m |-> m, err |-> "", allData |-> allData, chunks |-> chunks]
    ELSE Let(recvChunk(m), LAMBDA r :
         Let(Len(r.resp), LAMBDA n :
            IF r.err # ""
            THEN [m |-> r.m, err |-> "receive chunk", allData |-> <<>>, chunks |-> chunks]
            ELSE IF first
            THEN ChunkLoop_DropShort(r.m, totalSize, allData \o r.resp,
                                     IF n > 8 THEN received + (n - 8) ELSE received,
                                     FALSE, Append(chunks, r.resp))
            ELSE IF n > 8
            THEN ChunkLoop_DropShort(r.m, totalSize, allData \o Slice(r.resp, 8, n),
                                     received + (n - 8), FALSE, Append(chunks, r.resp))
            ELSE ChunkLoop_DropShort(r.m, totalSize, allData, received, FALSE,
                                     Append(chunks, r.resp))))

\* The chunk loop of recvLargeData: for received < totalSize { ... }
RECURSIVE ChunkLoop(_, _, _, _, _, _)
ChunkLoop(m, totalSize, allData, received, first, chunks) ==
    IF ~(received < totalSize)
    THEN [m |-> m, err |-> "", allData |-> allData, chunks |-> chunks]
    ELSE Let(recvChunk(m), LAMBDA r :
         Let(Len(r.resp), LAMBDA n :
            IF r.err # ""
            THEN [m |-> r.m, err |-> "receive chunk", allData |-> <<>>, chunks |-> chunks]
            ELSE IF first
            THEN ChunkLoop(r.m, totalSize, allData \o r.resp,
                           IF n > 8 THEN received + (n - 8) ELSE received,
                           FALSE, Append(chunks, r.resp))
            ELSE IF n > 8
            THEN ChunkLoop(r.m, totalSize, allData \o Slice(r.resp, 8, n),
                           received + (n - 8), FALSE, Append(chunks, r.resp))
            ELSE ChunkLoop(r.m, totalSize, allData \o r.resp,
                           received + n, FALSE, Append(chunks, r.resp))))

\* recvLargeData returning the data when the trailing frame cannot be received
recvLargeData_KeepData(m, prepareResp) ==
    IF Len(prepareResp) < 12
    THEN [m |-> m, err |-> "PREPARE_DATA response too short", resp |-> <<>>,
          chunks |-> <<>>, acked |-> FALSE]
    ELSE Let(Uint32(Slice(prepareResp, 8, 12)), LAMBDA totalSize :
            IF totalSize <= 0
            THEN [m |-> m, err |-> "", resp |-> <<>>, chunks |-> <<>>, acked |-> FALSE]
            ELSE
            Let(ChunkLoop(m, totalSize, <<>>, 0, TRUE, <<>>), LAMBDA l :
               IF l.err # ""
               THEN [m |-> l.m, err |-> l.err, resp |-> <<>>,
                     chunks |-> l.chunks, acked |-> FALSE]
               ELSE
               Let(recvData(l.m), LAMBDA f :
                  IF f.err # ""
                  THEN [m |-> f.m, err |-> "", resp |-> l.allData,
                        chunks |-> l.chunks, acked |-> FALSE]
                  ELSE [m |-> [f.m EXCEPT !.lastData = f.resp], err |-> "",
                        resp |-> l.allData, chunks |-> l.chunks, acked |-> TRUE])))

\* recvLargeData consuming a trailing frame after an empty transfer too
recvLargeData_AckOnEmpty(m, prepareResp) ==
    IF Len(prepareResp) < 12
    THEN [m |-> m, err |-> "PREPARE_DATA response too short", resp |-> <<>>,
          chunks |-> <<>>, acked |-> FALSE]
    ELSE Let(Uint32(Slice(prepareResp, 8, 12)), LAMBDA totalSize :
            Let(ChunkLoop(m, totalSize, <<>>, 0, TRUE, <<>>), LAMBDA l :
               IF l.err # ""
               THEN [m |-> l.m, err |-> l.err, resp |-> <<>>,
                     chunks |-> l.chunks, acked |-> FALSE]
               ELSE
               Let(recvData(l.m), LAMBDA f :
                  IF f.err # ""
                  THEN [m |-> f.m, err |-> "receive final ACK", resp |-> <<>>,
                        chunks |-> l.chunks, acked |-> FALSE]
                  ELSE [m |-> [f.m EXCEPT !.lastData = f.resp], err |-> "",
                        resp |-> l.allData, chunks |-> l.chunks, acked |-> TRUE])))

\* recvLargeData leaving lastData as the prepare-data exchange set it
recvLargeData_KeepLast(m, prepareResp) ==
    IF Len(prepareResp) < 12
    THEN [m |-> m, err |-> "PREPARE_DATA response too short", resp |-> <<>>,
          chunks |-> <<>>, acked |-> FALSE]
    ELSE Let(Uint32(Slice(prepareResp, 8, 12)), LAMBDA totalSize :
            IF totalSize <= 0
            THEN [m |-> m, err |-> "", resp |-> <<>>, chunks |-> <<>>, acked |-> FALSE]
            ELSE
            Let(ChunkLoop(m, totalSize, <<>>, 0, TRUE, <<>>), LAMBDA l :
               IF l.err # ""
               THEN [m |-> l.m, err |-> l.err, resp |-> <<>>,
                     chunks |-> l.chunks, acked |-> FALSE]
               ELSE
               Let(recvData(l.m), LAMBDA f :
                  IF f.err # ""
                  THEN [m |-> f.m, err |-> "receive final ACK", resp |-> <<>>,
                        chunks |-> l.chunks, acked |-> FALSE]
                  ELSE [m |-> f.m, err |-> "",
                        resp |-> l.allData, chunks |-> l.chunks, acked |-> TRUE])))

\* recvLargeData receives chunked large data after CMD_PREPARE_DATA.  chunks
\* and acked are history: the chunk frames received, and whether the trailing
\* frame was consumed.
recvLargeData(m, prepareResp) ==
    IF Len(prepareResp) < 12
    THEN [m |-> m, err |-> "PREPARE_DATA response too short", resp |-> <<>>,
          chunks |-> <<>>, acked |-> FALSE]
    ELSE Let(Uint32(Slice(prepareResp, 8, 12)), LAMBDA totalSize :
            IF totalSize <= 0
            THEN [m |-> m, err |-> "", resp |-> <<>>, chunks |-> <<>>, acked |-> FALSE]
            ELSE
            Let(ChunkLoop(m, totalSize, <<>>, 0, TRUE, <<>>), LAMBDA l :
               IF l.err # ""
               THEN [m |-> l.m, err |-> l.err, resp |-> <<>>,
                     chunks |-> l.chunks, acked |-> FALSE]
               ELSE
               Let(recvData(l.m), LAMBDA f :
                  IF f.err # ""
                  THEN [m |-> f.m, err |-> "receive final ACK", resp |-> <<>>,
                        chunks |-> l.chunks, acked |-> FALSE]
                  ELSE [m |-> [f.m EXCEPT !.lastData = f.resp], err |-> "",
                        resp |-> l.allData, chunks |-> l.chunks, acked |-> TRUE])))

\* commandData returning the payload of an ack-data or ack-ok response
commandData_Payload(m, cmd, data, env) ==
    Let(command(m, cmd, data, "data", env), LAMBDA c :
    Let(parsePacket(c.resp), LAMBDA pkt :
       IF c.err # ""
       THEN [m |-> c.m, err |-> c.err, resp |-> <<>>, xs |-> <<c.x>>,
             chunks |-> <<>>, acked |-> FALSE]
       ELSE IF ~pkt.ok
       THEN [m |-> c.m, err |-> "packet too short", resp |-> <<>>, xs |-> <<c.x>>,
             chunks |-> <<>>, acked |-> FALSE]
       ELSE IF pkt.Command = CMD_PREPARE_DATA
       THEN Let(recvLargeData(c.m, c.resp), LAMBDA l :
               [m |-> l.m, err |-> l.err, resp |-> l.resp, xs |-> <<c.x>>,
                chunks |-> l.chunks, acked |-> l.acked])
       ELSE IF pkt.Command = CMD_ACK_DATA \/ pkt.Command = CMD_ACK_OK
       THEN [m |-> c.m, err |-> "", resp |-> pkt.Data, xs |-> <<c.x>>,
             chunks |-> <<>>, acked |-> FALSE]
       ELSE [m |-> c.m, err |-> "unexpected response command", resp |-> <<>>,
             xs |-> <<c.x>>, chunks |-> <<>>, acked |-> FALSE]))

\* commandData sends a command expecting a large data response.
commandData(m, cmd, data, env) ==
    Let(command(m, cmd, data, "data", env), LAMBDA c :
    Let(parsePacket(c.resp), LAMBDA pkt :
       IF c.err # ""
       THEN [m |-> c.m, err |-> c.err, resp |-> <<>>, xs |-> <<c.x>>,
             chunks |-> <<>>, acked |-> FALSE]
       ELSE IF ~pkt.ok
       THEN [m |-> c.m, err |-> "packet too short", resp |-> <<>>, xs |-> <<c.x>>,
             chunks |-> <<>>, acked |-> FALSE]
       ELSE IF pkt.Command = CMD_PREPARE_DATA
       THEN Let(recvLargeData(c.m, c.resp), LAMBDA l :
               [m |-> l.m, err |-> l.err, resp |-> l.resp, xs |-> <<c.x>>,
                chunks |-> l.chunks, acked |-> l.acked])
       ELSE IF pkt.Command = CMD_ACK_DATA \/ pkt.Command = CMD_ACK_OK
       THEN [m |-> c.m, err |-> "", resp |-> c.resp, xs |-> <<c.x>>,
             chunks |-> <<>>, acked |-> FALSE]
       ELSE [m |-> c.m, err |-> "unexpected response command", resp |-> <<>>,
             xs |-> <<c.x>>, chunks |-> <<>>, acked |-> FALSE]))

(***************************************************************************)
(* Real-time events (GetRealTimeEvents)                                    *)
(***************************************************************************)
\* a return statement of GetRealTimeEvents that closed the socket and dropped
\* the session
leave_Disconnected(m, err) == [m |-> [Close(m) EXCEPT !.sessionID = 0], err |-> err]

\* a return statement of GetRealTimeEvents: the engine and the socket stay
\* as they are
leave(m, err) == [m |-> m, err |-> err]

\* a registration that accepts any response code
regError_AnyCode(c) ==
    IF c.err # "" THEN "register events"
    ELSE IF ~parsePacket(c.resp).ok THEN "parse reg event response"
    ELSE ""

\* the error of the registration, given the result c of the REG_EVENT command
regError(c) ==
    IF c.err # "" THEN "register events"
    ELSE IF ~parsePacket(c.resp).ok THEN "parse reg event response"
    ELSE IF parsePacket(c.resp).Command # CMD_ACK_OK THEN "register events: error response"
    ELSE ""

\* the registration: the REG_EVENT command carrying the mask
registerEvents(m, eventMask, env) ==
    Let(command(m, CMD_REG_EVENT, PutUint32(eventMask), "general", env), LAMBDA c :
    Let(regError(c), LAMBDA e :
       [out |-> IF e # "" THEN leave(c.m, e) ELSE [m |-> c.m, err |-> ""], x |-> c.x]))

\* the loop's exit test
deadlineElapsed_Never(timeout, elapsed) == FALSE

deadlineElapsed(timeout, elapsed) == timeout > 0 /\ elapsed >= timeout

\* every read given one second
readTimeout_OneSecond(timeout, elapsed) == OneSecond

\* the deadline of one read of the loop
readTimeout(timeout, elapsed) ==
    IF timeout > 0 /\ timeout - elapsed < OneSecond THEN timeout - elapsed ELSE OneSecond

\* a read of the loop that keeps the frame as the last response
recvEvent_AsResponse(m) ==
    Let(IF IsTCP(m) THEN recvTCP(m) ELSE recvUDP(m), LAMBDA r :
       IF r.err # "" THEN r ELSE [r EXCEPT !.m.lastData = r.resp])

\* the loop reads with recvTCP or recvUDP directly
recvEvent(m) == IF IsTCP(m) THEN recvTCP(m) ELSE recvUDP(m)

\* no receive error classified as a timeout
isTimeout_Never(err) == FALSE

\* err.(interface{ Timeout() bool }) and Timeout(): the read hit its deadline
isTimeout(err) == err = "timeout"

\* a filter that does not look at the command field
eventMatches_AnyCommand(payload, eventMask) ==
    IF Len(payload) < 6 THEN FALSE
    ELSE BitAnd(Uint16(Slice(payload, 4, 6)), eventMask) # 0

\* the filter of the loop: the frame goes to the callback
eventMatches(payload, eventMask) ==
    IF Len(payload) < 4 THEN FALSE
    ELSE IF Uint16(Slice(payload, 0, 2)) # CMD_REG_EVENT THEN FALSE
    ELSE IF Len(payload) < 6 THEN FALSE
    ELSE BitAnd(Uint16(Slice(payload, 4, 6)), eventMask) # 0

\* strings.TrimRight(s, "\x00"): the bytes without their trailing zero bytes
RECURSIVE TrimZeros(_)
TrimZeros(b) ==
    IF b # <<>> /\ b[Len(b)] = 0 THEN TrimZeros(SubSeq(b, 1, Len(b) - 1)) ELSE b

\* time.Now(), the capture time of an event, and a time given by its fields
CaptureTime == [now |-> TRUE, fields |-> <<>>]

\* the event before its decoding: the type and the capture time, all else zero
NewEvent(eventType) ==
    [EventType |-> eventType, UserID |-> <<>>, State |-> 0, FingerIndex |-> 0,
     ButtonID |-> 0, DoorID |-> 0, UnlockType |-> 0, AlarmType |-> 0,
     Time |-> CaptureTime, RawData |-> <<>>]

\* decodeAttLogEvent: at least 32 bytes are a user id, a state and a time,
\* which is kept when its month and day are in range
decodeAttLogEvent(data, event) ==
    IF Len(data) < 32
    THEN [event EXCEPT !.RawData = data]
    ELSE [event EXCEPT
             !.UserID = TrimZeros(Slice(data, 0, 9)),
             !.State = data[25],
             !.Time = IF data[28] \in 1..12 /\ data[29] \in 1..31
                      THEN [now |-> FALSE,
                            fields |-> <<2000 + data[27], data[28], data[29],
                                         data[30], data[31], data[32]>>]
                      ELSE @]

\* decodeRealTimeEvent: the event the callback is given for a frame
decodeRealTimeEvent(payload, eventType) ==
    Let(NewEvent(eventType), LAMBDA event :
       IF Len(payload) <= 8
       THEN [event EXCEPT !.RawData = payload]
       ELSE
       Let(Slice(payload, 8, Len(payload)), LAMBDA data :
          IF eventType = EF_ATTLOG
          THEN decodeAttLogEvent(data, event)
          ELSE IF eventType \in {EF_ENROLLUSER, EF_VERIFY}
          THEN IF Len(data) >= 9
               THEN [event EXCEPT !.UserID = TrimZeros(Slice(data, 0, 9))]
               ELSE event
          ELSE IF eventType \in {EF_FINGER, EF_ENROLLFINGER, EF_FPFTR}
          THEN IF Len(data) >= 10
               THEN [event EXCEPT !.UserID = TrimZeros(Slice(data, 0, 9)),
                                  !.FingerIndex = data[10]]
               ELSE event
          ELSE IF eventType = EF_BUTTON
          THEN IF Len(data) >= 2
               THEN [event EXCEPT !.ButtonID = Uint16(Slice(data, 0, 2))]
               ELSE event
          ELSE IF eventType = EF_UNLOCK
          THEN IF Len(data) >= 2
               THEN [event EXCEPT !.DoorID = data[1], !.UnlockType = data[2]]
               ELSE event
          ELSE IF eventType = EF_ALARM
          THEN IF Len(data) >= 2
               THEN [event EXCEPT !.AlarmType = Uint16(Slice(data, 0, 2))]
               ELSE event
          ELSE [event EXCEPT !.RawData = data]))

\* One iteration of the loop.  pc is where the call is afterwards; perr, got,
\* last and invoked tell what the iteration did: the receive error, whether a
\* frame was received, the frame, whether the callback was invoked with it;
\* deadline is the read deadline the iteration set (-1: it set none), wait is
\* the time the read blocked.
listenStep(m, eventMask, timeout, elapsed) ==
    IF deadlineElapsed(timeout, elapsed)
    THEN [out |-> leave(m, ""), pc |-> "returned", polled |-> FALSE, perr |-> "",
          got |-> FALSE, last |-> <<>>, invoked |-> FALSE, deadline |-> -1, wait |-> 0]
    ELSE Let(readTimeout(timeout, elapsed), LAMBDA deadline :
         Let(recvEvent(m), LAMBDA r :
            IF r.err # ""
            THEN IF isTimeout(r.err)
                 THEN [out |-> [m |-> r.m, err |-> ""], pc |-> "listening", polled |-> TRUE,
                       perr |-> r.err, got |-> FALSE, last |-> <<>>, invoked |-> FALSE,
                       deadline |-> deadline, wait |-> deadline]
                 ELSE [out |-> leave(r.m, "receive event"), pc |-> "returned",
                       polled |-> TRUE, perr |-> r.err, got |-> FALSE, last |-> <<>>,
                       invoked |-> FALSE, deadline |-> deadline, wait |-> 0]
            ELSE [out |-> [m |-> r.m, err |-> ""], pc |-> "listening", polled |-> TRUE, perr |-> "",
                  got |-> TRUE, last |-> r.resp, invoked |-> eventMatches(r.resp, eventMask),
                  deadline |-> deadline, wait |-> 0]))

\* The loop run to its end on what the socket holds: a read that finds
\* nothing blocks until its deadline.  events counts the callbacks.
RECURSIVE listenLoop(_, _, _, _, _)
listenLoop(m, eventMask, timeout, elapsed, events) ==
    Let(listenStep(m, eventMask, timeout, elapsed), LAMBDA s :
       IF s.pc = "returned"
       THEN [m |-> s.out.m, err |-> s.out.err, events |-> events]
       ELSE listenLoop(s.out.m, eventMask, timeout, elapsed + s.wait,
                       IF s.invoked THEN events + 1 ELSE events))

\* GetRealTimeEvents as one call, for an overall timeout above 0
GetRealTimeEvents(m, eventMask, timeout, env) ==
    Let(registerEvents(m, eventMask, env), LAMBDA r :
       IF r.out.err # ""
       THEN [m |-> r.out.m, err |-> r.out.err, resp |-> <<>>, xs |-> <<r.x>>, events |-> 0]
       ELSE Let(listenLoop(r.out.m, eventMask, timeout, 0, 0), LAMBDA l :
               [m |-> l.m, err |-> l.err, resp |-> <<>>, xs |-> <<r.x>>,
                events |-> l.events]))

(***************************************************************************)
(* Construction                                                            *)
(***************************************************************************)
\* NewZKTeco applies the options in order to the defaults
RECURSIVE ApplyOptions(_, _)
ApplyOptions(z, opts) ==
    IF opts = <<>> THEN z
    ELSE LET o == Head(opts)
             z1 == IF o.opt = "WithProtocol" THEN [z EXCEPT !.protocol = o.protocol]
                   ELSE IF o.opt = "WithPassword" THEN [z EXCEPT !.password = o.password]
                   ELSE IF o.opt = "WithTCPMUX"
                   THEN [z EXCEPT !.tcpmuxEnabled = TRUE, !.protocol = "tcp"]
                   ELSE z
         IN ApplyOptions(z1, Tail(opts))

NewZKTeco(opts) ==
    ApplyOptions([protocol |-> "udp", password |-> 0, tcpmuxEnabled |-> FALSE,
                  replyID |-> InitialReplyID], opts)

(***************************************************************************)
(* Inputs: the calls made and what the environment does                    *)
(***************************************************************************)
MaxCalls == 3

\* session ids the device uses
SessionIds == <<298, 299>>
SidA == SessionIds[1]
SidB == SessionIds[2]

OptionLists ==
    {<<>>,
     <<[opt |-> "WithProtocol", protocol |-> "tcp"], [opt |-> "WithPassword", password |-> 55]>>,
     <<[opt |-> "WithTCPMUX"], [opt |-> "WithPassword", password |-> 1]>>}

\* A device frame template (see DeviceFrame)
T(cmd, sid, rid, data, len) ==
    [cmd |-> cmd, sid |-> sid, rid |-> rid, data |-> data, len |-> len, re |-> TRUE]

ConnectAnswers ==
    {T(CMD_ACK_OK, SidA, -1, <<>>, -1), T(CMD_ACK_OK, 0, -1, <<>>, -1),
     T(CMD_ACK_UNAUTH, SidA, -1, <<>>, -1), T(CMD_ACK_ERROR, SidA, -1, <<>>, -1),
     T(CMD_ACK_OK, SidA, -1, <<>>, 6)}

AuthAnswers ==
    {T(CMD_ACK_OK, -1, -1, <<>>, -1), T(CMD_ACK_OK, SidB, -1, <<>>, -1),
     T(CMD_ACK_ERROR, -1, -1, <<>>, -1), T(CMD_ACK_UNAUTH, -1, -1, <<>>, -1),
     T(CMD_ACK_OK, -1, -1, <<>>, 6)}

CommandAnswers ==
    {T(CMD_ACK_OK, -1, -1, <<7>>, -1), T(CMD_ACK_OK, SidB, -1, <<7>>, -1),
     T(CMD_ACK_ERROR, -1, -1, <<>>, -1), T(CMD_ACK_OK, -1, 65535, <<>>, -1),
     T(CMD_ACK_OK, SidB, -1, <<>>, 4)}

\* The answers to a bulk request: a small result, an empty transfer, and a
\* transfer of two chunks with its trailing acknowledgement
BulkAnswers ==
    {<<T(CMD_ACK_DATA, -1, -1, <<1, 2>>, -1)>>,
     <<T(CMD_ACK_OK, SidB, -1, <<1>>, -1)>>,
     <<T(CMD_ACK_ERROR, -1, -1, <<>>, -1)>>,
     <<T(CMD_PREPARE_DATA, -1, -1, PutUint32(0), -1)>>,
     <<T(CMD_PREPARE_DATA, SidB, -1, PutUint32(2), -1), T(CMD_DATA, -1, -1, <<1>>, -1),
       T(CMD_DATA, -1, -1, <<2>>, -1), T(CMD_ACK_OK, -1, -1, <<>>, -1)>>}

\* where the network may cut the TCP stream of an answer (0: nowhere)
TcpCuts == {0, 5}

\* how many units of an answer may arrive before the read deadline: none, all,
\* or all but the last
Arrivals(a, c) ==
    LET units == IF protocol = "tcp" THEN (IF c = 0 THEN 1 ELSE 2) ELSE Len(a)
    IN {units} \cup (IF units > 1 THEN {units - 1} ELSE {}) \cup (IF c = 0 THEN {0} ELSE {})

NoEnv == [writeOk |-> FALSE, frames |-> <<>>, cut |-> 0, arrive |-> 0, reset |-> FALSE]

\* The environments of one exchange: the write fails; or the device sends
\* nothing, or one of the answers, of which any number of units arrive in time
EnvsOpen(answers) ==
    {NoEnv}
    \cup {[writeOk |-> TRUE, frames |-> <<>>, cut |-> 0, arrive |-> 0, reset |-> FALSE]}
    \cup UNION {{[writeOk |-> TRUE, frames |-> ac[1], cut |-> ac[2], arrive |-> n, reset |-> FALSE] :
                    n \in Arrivals(ac[1], ac[2])} :
                ac \in answers \X (IF protocol = "tcp" THEN TcpCuts ELSE {0})}

\* without an open socket nothing is written and the device sees nothing
Envs(answers) == IF conn # "open" THEN {NoEnv} ELSE EnvsOpen(answers)

One(ts) == {<<t>> : t \in ts}

IsUnauth(e) == e.frames # <<>> /\ e.frames[1].cmd = CMD_ACK_UNAUTH

\* what a proxy may answer to the CONNECT request
CRLF == <<"\r", "\n">>
Status200 == <<"H", "T", "T", "P", "/", "1", ".", "1", " ", "2", "0", "0", " ", "O", "K">>
Status200Bare == <<"H", "T", "T", "P", "/", "1", ".", "1", " ", "2", "0", "0">>
Status502 == <<"H", "T", "T", "P", "/", "1", ".", "1", " ", "5", "0", "2", " ", "B", "a", "d">>
ViaHeader == <<"V", "i", "a", ":", " ", "m", "u", "x">>

NoProxy == [writeOk |-> FALSE, stream |-> <<>>]

\* the proxy accepts, with a header before the blank line; it refuses; it answers 200
\* without a reason phrase; it goes silent before the status line or before
\* the blank line; the request cannot be written
ProxyAnswers ==
    {NoProxy}
    \cup {[writeOk |-> TRUE, stream |-> t] :
             t \in {Status200 \o CRLF \o ViaHeader \o CRLF \o CRLF,
                    Status502 \o CRLF \o CRLF,
                    Status200Bare \o CRLF \o CRLF,
                    Status200 \o CRLF \o ViaHeader \o CRLF,
                    <<>>}}

ConnectEnvs ==
    {[dialOk |-> FALSE, proxy |-> NoProxy, e1 |-> NoEnv, e2 |-> NoEnv]}
    \cup (IF tcpmuxEnabled
          THEN {[dialOk |-> TRUE, proxy |-> p, e1 |-> NoEnv, e2 |-> NoEnv] :
                   p \in {q \in ProxyAnswers : httpConnectHandshake(q) # ""}}
          ELSE {})
    \cup UNION {{[dialOk |-> TRUE, proxy |-> p, e1 |-> e1, e2 |-> e2] :
                    e2 \in (IF IsUnauth(e1) THEN EnvsOpen(One(AuthAnswers)) ELSE {NoEnv}),
                    p \in (IF tcpmuxEnabled
                           THEN {q \in ProxyAnswers : httpConnectHandshake(q) = ""}
                           ELSE {NoProxy})} :
                e1 \in EnvsOpen(One(ConnectAnswers))}

(***************************************************************************)
(* Actions: one per call on the client, and the network's delivery         *)
(***************************************************************************)
NoSession == [cmd |-> 0, sid |-> 0]

NoApp == [fn |-> "none", args |-> <<>>, out |-> <<>>]

NoTunnel == [stream |-> <<>>, writeOk |-> FALSE, err |-> "", closed |-> FALSE]

NoRead == [deadline |-> -1, at |-> 0]

NoRt == [pc |-> "idle", mask |-> 0, timeout |-> 0, elapsed |-> 0, polled |-> FALSE,
         perr |-> "", got |-> FALSE, last |-> <<>>, invoked |-> FALSE, peer |-> FALSE,
         read |-> NoRead]

NoBulk == [pc |-> "idle", totalSize |-> 0, allData |-> <<>>, received |-> 0, first |-> TRUE]

NoTcp == [frames |-> <<>>, valid |-> TRUE, delivered |-> <<>>, pre |-> <<>>, stalled |-> FALSE]

Start(lists) ==
    /\ \E opts \in lists :
          LET z == NewZKTeco(opts)
          IN /\ protocol = z.protocol
             /\ tcpmuxEnabled = z.tcpmuxEnabled
             /\ password = z.password
             /\ replyID = z.replyID
    /\ conn = "nil"
    /\ sessionID = 0
    /\ lastData = <<>>
    /\ tcpBuffer = <<>>
    /\ wire = <<>>
    /\ transit = <<>>
    /\ owner = <<>>
    /\ adopted = NoSession
    /\ ret = [op |-> "new", err |-> "", resp |-> <<>>, chunks |-> <<>>, acked |-> FALSE]
    /\ xlog = <<>>
    /\ calls = 0
    /\ tcp = NoTcp
    /\ rt = NoRt
    /\ tunnel = NoTunnel
    /\ app = NoApp
    /\ sent = <<>>
    /\ leaked = FALSE
    /\ bulk = NoBulk

Init == Start(OptionLists)

\* The call returned r: the engine and the socket are as r.m says
Outcome(op, r, chunks, acked) ==
    /\ conn' = r.m.conn
    /\ sessionID' = r.m.sessionID
    /\ replyID' = r.m.replyID
    /\ lastData' = r.m.lastData
    /\ tcpBuffer' = r.m.tcpBuffer
    /\ wire' = r.m.wire
    /\ transit' = r.m.transit
    /\ owner' = r.m.owner
    /\ ret' = [op |-> op, err |-> r.err, resp |-> r.resp, chunks |-> chunks, acked |-> acked]
    /\ xlog' = r.xs
    /\ calls' = calls + 1
    /\ tunnel' = IF op = "Connect" THEN r.tunnel ELSE tunnel
    /\ leaked' = (leaked \/ (op = "Connect" /\ r.overwritten))
    /\ UNCHANGED <<config, tcp, rt, app, bulk>>

Returned(op, r, chunks, acked) == Outcome(op, r, chunks, acked) /\ UNCHANGED sent

DoConnect ==
    /\ calls < MaxCalls
    /\ \E env \in ConnectEnvs :
          \E r \in {Connect(Machine, tcpmuxEnabled, password, env)} :
             /\ Returned("Connect", r, <<>>, FALSE)
             /\ adopted' = IF r.err # "" THEN NoSession
                           ELSE [cmd |-> parsePacket(r.xs[1].raw).Command,
                                 sid |-> parsePacket(r.xs[1].raw).SessionID]

DoDisconnect ==
    /\ calls < MaxCalls
    /\ \E env \in Envs(One(CommandAnswers)) :
          \E r \in {Disconnect(Machine, env)} :
             /\ Returned("Disconnect", r, <<>>, FALSE)
             /\ adopted' = NoSession

\* a general command of the domain layer (GetTime)
DoCommand ==
    /\ calls < MaxCalls
    /\ \E env \in Envs(One(CommandAnswers)) :
          \E c \in {command(Machine, CMD_GET_TIME, <<>>, "general", env)} :
             /\ Returned("command", [m |-> c.m, err |-> c.err, resp |-> c.resp,
                                      xs |-> <<c.x>>], <<>>, FALSE)
             /\ UNCHANGED adopted

\* a bulk request of the domain layer (GetUsers)
DoCommandData ==
    /\ calls < MaxCalls
    /\ \E env \in Envs(BulkAnswers) :
          \E r \in {commandData(Machine, CMD_USER_TEMP_RRQ, <<5>>, env)} :
             /\ Returned("commandData", r, r.chunks, r.acked)
             /\ UNCHANGED adopted

\* the network delivers what was in transit
Deliver ==
    /\ transit # <<>>
    /\ wire' = wire \o transit
    /\ transit' = <<>>
    /\ UNCHANGED <<config, conn, sessionID, replyID, lastData, tcpBuffer, owner,
                   adopted, ret, xlog, calls, tcp, rt, tunnel, app, sent, leaked, bulk>>

Next == DoConnect \/ DoDisconnect \/ DoCommand \/ DoCommandData \/ Deliver

Spec == Init /\ [][Next]_vars

(***************************************************************************)
(* The tunnel: clients constructed with the TCPMUX option and a protocol   *)
(* option in either order, or with the TCPMUX option alone, making the     *)
(* same calls                                                              *)
(***************************************************************************)
MuxOptionLists ==
    {<<[opt |-> "WithTCPMUX"]>>,
     <<[opt |-> "WithProtocol", protocol |-> "udp"], [opt |-> "WithTCPMUX"]>>,
     <<[opt |-> "WithTCPMUX"], [opt |-> "WithProtocol", protocol |-> "udp"]>>,
     <<[opt |-> "WithTCPMUX"], [opt |-> "WithProtocol", protocol |-> "tcp"]>>}

InitMux == Start(MuxOptionLists)

SpecMux == InitMux /\ [][Next]_vars

(***************************************************************************)
(* The TCP receive path on its own: an established session on which the    *)
(* device sends a stream of frames, cut by the network into reads in any   *)
(* way, and the client makes receive calls                                 *)
(***************************************************************************)
MaxFrames == 2
MaxReads == 2

\* frame payloads the device sends: an empty one, a reply, an event
TcpPayloads == {<<>>, <<208, 7, 0, 0, 42, 0, 1, 0>>, <<244, 1, 0, 0, 1, 0, 0, 0, 9>>}

\* the sizes of a socket read (the last one stands for "all there is")
ReadSizes == {1, 3, 8, 16384}

RECURSIVE SeqsUpTo(_, _)
SeqsUpTo(S, n) ==
    IF n = 0 THEN {<<>>}
    ELSE LET shorter == SeqsUpTo(S, n - 1)
         IN shorter \cup {Append(q, e) : q \in {t \in shorter : Len(t) = n - 1}, e \in S}

WrapAll(frames) == Flatten([i \in 1..Len(frames) |-> wrapTCP(frames[i])])

\* the stream of a device that lost framing: the first magic byte is wrong
Corrupt(bytes) == [bytes EXCEPT ![1] = 0]

\* the reads of one receive call: bytes cut into chunks of the planned sizes;
\* what the plan leaves stays in the network
RECURSIVE CutReads(_, _)
CutReads(bytes, plan) ==
    IF plan = <<>> \/ bytes = <<>> THEN <<>>
    ELSE LET n == Min(Head(plan), Len(bytes))
         IN <<Slice(bytes, 0, n)>> \o CutReads(Slice(bytes, n, Len(bytes)), Tail(plan))

RECURSIVE Sum(_)
Sum(q) == IF q = <<>> THEN 0 ELSE Head(q) + Sum(Tail(q))

InitTCP ==
    /\ protocol = "tcp"
    /\ tcpmuxEnabled = FALSE
    /\ password = 0
    /\ conn = "open"
    /\ sessionID = SidA
    /\ replyID = 0
    /\ lastData = <<208, 7, 0, 0>> \o PutUint16(SidA) \o <<0, 0>>
    /\ tcpBuffer = <<>>
    /\ wire = <<>>
    /\ owner = <<>>
    /\ adopted = [cmd |-> CMD_ACK_OK, sid |-> SidA]
    /\ ret = [op |-> "Connect", err |-> "", resp |-> <<>>, chunks |-> <<>>, acked |-> FALSE]
    /\ xlog = <<>>
    /\ calls = 0
    /\ \E frames \in SeqsUpTo(TcpPayloads, MaxFrames) \ {<<>>}, valid \in BOOLEAN :
          /\ tcp = [frames |-> frames, valid |-> valid, delivered |-> <<>>, pre |-> <<>>,
                    stalled |-> FALSE]
          /\ transit = <<IF valid THEN WrapAll(frames) ELSE Corrupt(WrapAll(frames))>>
    /\ rt = NoRt
    /\ tunnel = NoTunnel
    /\ app = NoApp
    /\ sent = <<>>
    /\ leaked = FALSE
    /\ bulk = NoBulk

\* A receive call returned r: what it did not read is still in the network
Received(op, r) ==
    /\ tcpBuffer' = r.m.tcpBuffer
    /\ wire' = <<>>
    /\ transit' = <<Flatten(r.m.wire) \o Flatten(r.m.transit)>>
    /\ ret' = [op |-> op, err |-> r.err, resp |-> r.resp, chunks |-> <<>>, acked |-> FALSE]
    /\ tcp' = [tcp EXCEPT !.delivered = IF r.err = "" THEN Append(@, r.resp) ELSE @,
                          !.pre = tcpBuffer,
                          !.stalled = @ \/ (r.err = "timeout" /\ r.m.tcpBuffer # <<>>)]
    /\ UNCHANGED <<config, conn, sessionID, replyID, lastData, owner, adopted, xlog, calls, rt,
                   tunnel, app, sent, leaked, bulk>>

\* the machine when the reads of `plan` arrive before the deadline
Offered(plan) ==
    LET bytes == Flatten(transit)
        n == Min(Sum(plan), Len(bytes))
    IN [Machine EXCEPT !.wire = CutReads(bytes, plan),
                       !.transit = <<Slice(bytes, n, Len(bytes))>>]

\* a call of recvData (the response of an exchange, the trailing frame of a
\* bulk transfer, a poll of the event loop)
DoRecvData ==
    \E plan \in SeqsUpTo(ReadSizes, MaxReads) :
       \E r \in {recvData(Offered(plan))} : Received("recvData", r)

\* a call of readNextTCPPayload (a chunk of a bulk transfer)
DoReadNextTCPPayload ==
    \E plan \in SeqsUpTo(ReadSizes, MaxReads) :
       \E r \in {readNextTCPPayload(Offered(plan), 0)} : Received("readNextTCPPayload", r)

NextTCP == DoRecvData \/ DoReadNextTCPPayload

SpecTCP == InitTCP /\ [][NextTCP]_vars

(***************************************************************************)
(* The bulk transfer on its own: one bulk request on an established        *)
(* session, for every script of the device, and the exchange after it      *)
(***************************************************************************)
MaxChunks == 3
MaxChunkData == 2

\* chunk k of a transfer: an 8-byte header and n data bytes, all different
ChunkFrame(k, n) == T(CMD_DATA, -1, -1, [i \in 1..n |-> 10 * k + i], -1)

\* the transfer of chunks with ns[k] data bytes: the prepare-data response
\* advertising their sum, the chunks, the trailing acknowledgement
Transfer(ns) ==
    <<T(CMD_PREPARE_DATA, -1, -1, PutUint32(Sum(ns)), -1)>>
    \o [k \in 1..Len(ns) |-> ChunkFrame(k, ns[k])]
    \o <<T(CMD_ACK_OK, -1, -1, <<>>, -1)>>

\* the same transfer when the acknowledgement carries a replyID of the
\* device's own instead of echoing the request's
TransferOwnAck(ns) == [Transfer(ns) EXCEPT ![Len(ns) + 2].rid = 7]

\* the same transfer when the device never sends the acknowledgement
TransferNoAck(ns) == SubSeq(Transfer(ns), 1, Len(ns) + 1)

BulkScripts ==
    {Transfer(ns) : ns \in SeqsUpTo(0..MaxChunkData, MaxChunks) \ {<<>>}}
    \cup {TransferNoAck(ns) : ns \in SeqsUpTo(0..MaxChunkData, MaxChunks) \ {<<>>}}
    \cup {TransferOwnAck(ns) : ns \in SeqsUpTo(0..MaxChunkData, MaxChunks) \ {<<>>}}
    \cup One({T(CMD_ACK_DATA, -1, -1, <<1, 2>>, -1), T(CMD_ACK_OK, -1, -1, <<3>>, -1),
              T(CMD_ACK_OK, -1, -1, <<>>, -1), T(CMD_ACK_ERROR, -1, -1, <<4>>, -1),
              T(CMD_DATA, -1, -1, <<5, 6>>, -1), T(CMD_PREPARE_DATA, -1, -1, <<1, 0>>, -1),
              T(CMD_ACK_DATA, -1, -1, <<>>, 7)})

\* where the network may cut the TCP stream of a transfer (0: nowhere)
BulkCuts == {0, 20}

\* the peer resets the connection after a transfer without acknowledgement,
\* all of it delivered
ResetEnvs ==
    {[writeOk |-> TRUE, frames |-> TransferNoAck(ns), cut |-> 0,
      arrive |-> Len(ns) + 1, reset |-> TRUE] :
        ns \in SeqsUpTo(0..MaxChunkData, MaxChunks) \ {<<>>}}

BulkEnvs ==
    {NoEnv} \cup ResetEnvs
    \cup UNION {{[writeOk |-> TRUE, frames |-> ac[1], cut |-> ac[2], arrive |-> n, reset |-> FALSE] :
                    n \in Arrivals(ac[1], ac[2])} :
                ac \in BulkScripts \X (IF protocol = "tcp" THEN BulkCuts ELSE {0})}

\* an established session, after n calls
Established(n) ==
    /\ protocol \in {"udp", "tcp"}
    /\ tcpmuxEnabled = FALSE
    /\ password = 0
    /\ conn = "open"
    /\ sessionID = SidA
    /\ replyID = 0
    /\ lastData = <<208, 7, 0, 0>> \o PutUint16(SidA) \o <<0, 0>>
    /\ tcpBuffer = <<>>
    /\ wire = <<>>
    /\ transit = <<>>
    /\ owner = <<>>
    /\ adopted = [cmd |-> CMD_ACK_OK, sid |-> SidA]
    /\ ret = [op |-> "Connect", err |-> "", resp |-> <<>>, chunks |-> <<>>, acked |-> FALSE]
    /\ xlog = <<>>
    /\ calls = n
    /\ tcp = NoTcp
    /\ rt = NoRt
    /\ tunnel = NoTunnel
    /\ app = NoApp
    /\ sent = <<>>
    /\ leaked = FALSE
    /\ bulk = NoBulk

InitBulk == Established(0)

\* the bulk request (GetUsers)
DoBulk ==
    /\ calls = 0
    /\ \E env \in BulkEnvs :
          \E r \in {commandData(Machine, CMD_USER_TEMP_RRQ, <<5>>, env)} :
             /\ Returned("commandData", r, r.chunks, r.acked)
             /\ UNCHANGED adopted

\* the exchange after it (GetTime), answered at once by the device
DoNextCommand ==
    /\ calls = 1
    /\ \E env \in {[writeOk |-> TRUE, frames |-> <<T(CMD_ACK_OK, -1, -1, <<7>>, -1)>>,
                    cut |-> 0, arrive |-> 1, reset |-> FALSE]} :
          \E c \in {command(Machine, CMD_GET_TIME, <<>>, "general", env)} :
             /\ Returned("command", [m |-> c.m, err |-> c.err, resp |-> c.resp,
                                      xs |-> <<c.x>>], <<>>, FALSE)
             /\ UNCHANGED adopted

NextBulk == DoBulk \/ DoNextCommand

SpecBulk == InitBulk /\ [][NextBulk]_vars

(***************************************************************************)
(* The event listener on its own: one call of GetRealTimeEvents on an      *)
(* established session.  The call is a process: the registration, then one *)
(* iteration of the loop at a time, while the device sends frames, the     *)
(* network delivers them, the peer may reset the connection, and time      *)
(* passes.  Time is counted in half seconds.                               *)
(***************************************************************************)
MaxTimeout == 3

\* the overall timeouts of the call (0: listen forever)
Timeouts == 0..MaxTimeout

EventMasks == {EF_ATTLOG, EF_FINGER + EF_VERIFY, 65536}

\* a frame of the device with the given command and event-type fields, cut
\* to len bytes
EventFrame(cmd, type, data, len) ==
    Slice(PutUint16(cmd) \o PutUint16(0) \o PutUint16(type) \o PutUint16(0) \o data, 0, len)

\* the frames the device sends while the client listens: events of one type,
\* of two types and of none, short frames, and frames of other commands
EventFrames ==
    {EventFrame(CMD_REG_EVENT, EF_ATTLOG, <<9>>, 9),
     EventFrame(CMD_REG_EVENT, EF_FINGER, <<>>, 8),
     EventFrame(CMD_REG_EVENT, EF_ATTLOG + EF_VERIFY, <<>>, 8),
     EventFrame(CMD_REG_EVENT, 0, <<>>, 8),
     EventFrame(CMD_REG_EVENT, EF_ATTLOG, <<>>, 6),
     EventFrame(CMD_REG_EVENT, EF_ATTLOG, <<>>, 5),
     EventFrame(CMD_REG_EVENT, EF_ATTLOG, <<>>, 3),
     EventFrame(CMD_ACK_OK, EF_ATTLOG, <<>>, 8),
     EventFrame(CMD_ACK_OK, EF_FINGER, <<>>, 6)}

\* the answers to the registration: ack-ok, alone or followed by an event;
\* other codes; another session; a frame too short to parse
RegAnswers ==
    {<<T(CMD_ACK_OK, -1, -1, <<>>, -1)>>,
     <<T(CMD_ACK_OK, -1, -1, <<>>, -1),
       [T(CMD_REG_EVENT, EF_ATTLOG, 0, <<>>, -1) EXCEPT !.re = FALSE]>>,
     <<T(CMD_ACK_ERROR, -1, -1, <<>>, -1)>>,
     <<T(CMD_ACK_UNAUTH, -1, -1, <<>>, -1)>>,
     <<T(CMD_ACK_OK, SidB, -1, <<>>, -1)>>,
     <<T(CMD_ACK_OK, -1, -1, <<>>, 4)>>}

InitRT == InitBulk

\* GetRealTimeEvents is called: the registration, and the loop is entered or
\* the call returns the registration error
DoGetRealTimeEvents ==
    /\ calls = 0
    /\ rt.pc = "idle"
    /\ \E eventMask \in EventMasks, timeout \in Timeouts, env \in EnvsOpen(RegAnswers) :
          \E r \in {registerEvents(Machine, eventMask, env)} :
             /\ conn' = r.out.m.conn
             /\ sessionID' = r.out.m.sessionID
             /\ replyID' = r.out.m.replyID
             /\ lastData' = r.out.m.lastData
             /\ tcpBuffer' = r.out.m.tcpBuffer
             /\ wire' = r.out.m.wire
             /\ transit' = r.out.m.transit
             /\ owner' = r.out.m.owner
             /\ xlog' = <<r.x>>
             /\ calls' = calls + 1
             /\ ret' = IF r.out.err = "" THEN ret
                       ELSE [op |-> "GetRealTimeEvents", err |-> r.out.err, resp |-> <<>>,
                             chunks |-> <<>>, acked |-> FALSE]
             /\ rt' = [rt EXCEPT !.pc = IF r.out.err = "" THEN "listening" ELSE "returned",
                                 !.mask = eventMask, !.timeout = timeout]
             /\ UNCHANGED <<config, adopted, tcp, tunnel, app, sent, leaked, bulk>>

\* one iteration of the loop; a read that hits its deadline took that long
Poll ==
    /\ rt.pc = "listening"
    /\ \E s \in {listenStep(Machine, rt.mask, rt.timeout, rt.elapsed)} :
          /\ conn' = s.out.m.conn
          /\ sessionID' = s.out.m.sessionID
          /\ replyID' = s.out.m.replyID
          /\ lastData' = s.out.m.lastData
          /\ tcpBuffer' = s.out.m.tcpBuffer
          /\ wire' = s.out.m.wire
          /\ transit' = s.out.m.transit
          /\ owner' = s.out.m.owner
          /\ ret' = IF s.pc = "listening" THEN ret
                    ELSE [op |-> "GetRealTimeEvents", err |-> s.out.err, resp |-> <<>>,
                          chunks |-> <<>>, acked |-> FALSE]
          /\ rt' = [rt EXCEPT !.pc = s.pc, !.polled = @ \/ s.polled, !.perr = s.perr,
                              !.got = s.got, !.last = s.last, !.invoked = s.invoked,
                              !.read = IF s.polled
                                       THEN [deadline |-> s.deadline, at |-> rt.elapsed]
                                       ELSE @,
                              !.elapsed = Min(@ + s.wait, MaxTimeout)]
          /\ UNCHANGED <<config, adopted, xlog, calls, tcp, tunnel, app, sent, leaked, bulk>>

\* the device sends a frame, when nothing it sent before is still unread; on
\* TCP the network may deliver the frame in two parts
DeviceEvent ==
    /\ rt.pc = "listening"
    /\ conn = "open"
    /\ wire = <<>> /\ transit = <<>> /\ tcpBuffer = <<>>
    /\ \E f \in EventFrames, cut \in (IF protocol = "tcp" THEN TcpCuts ELSE {0}) :
          \E d \in {Device(Machine, <<f>>, [frames |-> <<[re |-> FALSE]>>, cut |-> cut,
                                             arrive |-> 1, reset |-> FALSE])} :
             /\ wire' = d.wire
             /\ transit' = d.transit
             /\ owner' = d.owner
    /\ UNCHANGED <<config, conn, sessionID, replyID, lastData, tcpBuffer, adopted, ret,
                   xlog, calls, tcp, rt, tunnel, app, sent, leaked, bulk>>

\* the peer resets the connection: what is read after the data already
\* received is a read error, not a timeout
PeerReset ==
    /\ rt.pc = "listening"
    /\ conn = "open"
    /\ conn' = "reset"
    /\ rt' = [rt EXCEPT !.peer = TRUE]
    /\ UNCHANGED <<config, sessionID, replyID, lastData, tcpBuffer, wire, transit, owner,
                   adopted, ret, xlog, calls, tcp, tunnel, app, sent, leaked, bulk>>

\* half a second passes while the call runs (in the callback, between reads)
Tick ==
    /\ rt.pc = "listening"
    /\ rt.elapsed < MaxTimeout
    /\ rt' = [rt EXCEPT !.elapsed = @ + 1]
    /\ UNCHANGED <<config, conn, sessionID, replyID, lastData, tcpBuffer, wire, transit,
                   owner, adopted, ret, xlog, calls, tcp, tunnel, app, sent, leaked, bulk>>

NextRT == DoGetRealTimeEvents \/ Poll \/ DeviceEvent \/ Deliver \/ PeerReset \/ Tick

SpecRT == InitRT /\ [][NextRT]_vars

\* The loop keeps running (the callback returns, a read returns at its deadline
\* at the latest) and time keeps passing
SpecRTFair == SpecRT /\ WF_vars(Poll) /\ WF_vars(Tick)

(***************************************************************************)
(* The life of a session: after the Connect that established it, any calls *)
(* of the client in any order: exchanges, bulk requests, listening calls,  *)
(* Disconnect and Connect                                                  *)
(***************************************************************************)
InitLife == Established(1)

\* a listening call with an overall timeout of one second
DoListen ==
    /\ calls < MaxCalls
    /\ \E env \in Envs(RegAnswers) :
          \E r \in {GetRealTimeEvents(Machine, EF_ATTLOG, OneSecond, env)} :
             /\ Returned("GetRealTimeEvents", r, <<>>, FALSE)
             /\ UNCHANGED adopted

NextLife == Next \/ DoListen

SpecLife == InitLife /\ [][NextLife]_vars

(***************************************************************************)
(* SpecChunks: one bulk request on an established session, step by step:   *)
(* the request and its immediate response, then one step per iteration of  *)
(* the chunk loop of recvLargeData while the device sends frames, then the *)
(* read of the final acknowledgement                                       *)
(***************************************************************************)
MaxTotal == 2

\* the immediate responses to the bulk request
ChunkAnswers ==
    {T(CMD_PREPARE_DATA, -1, -1, PutUint32(n), -1) : n \in 0..MaxTotal}
    \cup {T(CMD_PREPARE_DATA, -1, -1, <<1, 0>>, -1), T(CMD_ACK_OK, -1, -1, <<3>>, -1),
          T(CMD_ACK_ERROR, -1, -1, <<4>>, -1)}

\* the frames the device sends while the loop runs: an empty frame, half a
\* header, a header alone, a header with one and with two data bytes
LoopFrames ==
    {Slice(PutUint16(CMD_DATA) \o <<0, 0>> \o PutUint16(SidA) \o <<1, 0, 11, 12>>, 0, n) :
        n \in {0, 4, 8, 9, 10}}

\* commandData up to the chunk loop.  entered: the response is a prepare-data
\* response advertising a total above zero, and the loop is about to start;
\* else out is what commandData returns.
beginCommandData(m, cmd, data, env) ==
    Let(command(m, cmd, data, "data", env), LAMBDA c :
    Let(parsePacket(c.resp), LAMBDA pkt :
       IF /\ c.err = "" /\ pkt.ok /\ pkt.Command = CMD_PREPARE_DATA
          /\ Len(c.resp) >= 12 /\ Uint32(Slice(c.resp, 8, 12)) > 0
       THEN [entered |-> TRUE, totalSize |-> Uint32(Slice(c.resp, 8, 12)),
             out |-> [m |-> c.m, err |-> "", resp |-> <<>>, xs |-> <<c.x>>,
                      chunks |-> <<>>, acked |-> FALSE]]
       ELSE [entered |-> FALSE, totalSize |-> 0, out |-> commandData(m, cmd, data, env)]))

\* one iteration of the chunk loop, entered with received < totalSize
chunkStep(m, b) ==
    Let(recvChunk(m), LAMBDA r :
    Let(Len(r.resp), LAMBDA n :
       IF r.err # ""
       THEN [m |-> r.m, err |-> "receive chunk",
             b |-> [b EXCEPT !.pc = "returned", !.allData = <<>>]]
       ELSE IF b.first
       THEN [m |-> r.m, err |-> "",
             b |-> [b EXCEPT !.allData = @ \o r.resp,
                             !.received = IF n > 8 THEN @ + (n - 8) ELSE @,
                             !.first = FALSE]]
       ELSE IF n > 8
       THEN [m |-> r.m, err |-> "",
             b |-> [b EXCEPT !.allData = @ \o Slice(r.resp, 8, n),
                             !.received = @ + (n - 8)]]
       ELSE [m |-> r.m, err |-> "",
             b |-> [b EXCEPT !.allData = @ \o r.resp, !.received = @ + n]]))

\* after the loop: the final acknowledgement is read and the data returned
finalAck(m, b) ==
    Let(recvData(m), LAMBDA f :
       IF f.err # ""
       THEN [m |-> f.m, err |-> "receive final ACK",
             b |-> [b EXCEPT !.pc = "returned", !.allData = <<>>]]
       ELSE [m |-> [f.m EXCEPT !.lastData = f.resp], err |-> "",
             b |-> [b EXCEPT !.pc = "returned"]])

InitChunks == Established(0)

\* commandData is called (GetUsers): the exchange, and the chunk loop is
\* entered or the call returns
BeginBulk ==
    /\ calls = 0
    /\ bulk.pc = "idle"
    /\ \E env \in EnvsOpen(One(ChunkAnswers)) :
          \E s \in {beginCommandData(Machine, CMD_USER_TEMP_RRQ, <<5>>, env)} :
             /\ conn' = s.out.m.conn
             /\ sessionID' = s.out.m.sessionID
             /\ replyID' = s.out.m.replyID
             /\ lastData' = s.out.m.lastData
             /\ tcpBuffer' = s.out.m.tcpBuffer
             /\ wire' = s.out.m.wire
             /\ transit' = s.out.m.transit
             /\ owner' = s.out.m.owner
             /\ xlog' = s.out.xs
             /\ calls' = calls + 1
             /\ ret' = IF s.entered THEN ret
                       ELSE [op |-> "commandData", err |-> s.out.err, resp |-> s.out.resp,
                             chunks |-> <<>>, acked |-> FALSE]
             /\ bulk' = IF s.entered
                        THEN [NoBulk EXCEPT !.pc = "chunks", !.totalSize = s.totalSize]
                        ELSE [NoBulk EXCEPT !.pc = "returned"]
             /\ UNCHANGED <<config, adopted, tcp, rt, tunnel, app, sent, leaked>>

\* one iteration of the loop: a chunk is received, or the read fails at its
\* deadline and the call returns
ChunkStep ==
    /\ bulk.pc = "chunks"
    /\ bulk.received < bulk.totalSize
    /\ \E s \in {chunkStep(Machine, bulk)} :
          /\ conn' = s.m.conn
          /\ sessionID' = s.m.sessionID
          /\ replyID' = s.m.replyID
          /\ lastData' = s.m.lastData
          /\ tcpBuffer' = s.m.tcpBuffer
          /\ wire' = s.m.wire
          /\ transit' = s.m.transit
          /\ owner' = s.m.owner
          /\ bulk' = s.b
          /\ ret' = IF s.b.pc # "returned" THEN ret
                    ELSE [op |-> "commandData", err |-> s.err, resp |-> <<>>,
                          chunks |-> <<>>, acked |-> FALSE]
          /\ UNCHANGED <<config, adopted, xlog, calls, tcp, rt, tunnel, app, sent, leaked>>

\* the loop has ended: one more frame is read and the call returns
FinalAck ==
    /\ bulk.pc = "chunks"
    /\ ~(bulk.received < bulk.totalSize)
    /\ \E s \in {finalAck(Machine, bulk)} :
          /\ conn' = s.m.conn
          /\ sessionID' = s.m.sessionID
          /\ replyID' = s.m.replyID
          /\ lastData' = s.m.lastData
          /\ tcpBuffer' = s.m.tcpBuffer
          /\ wire' = s.m.wire
          /\ transit' = s.m.transit
          /\ owner' = s.m.owner
          /\ bulk' = s.b
          /\ ret' = [op |-> "commandData", err |-> s.err, resp |-> s.b.allData,
                     chunks |-> <<>>, acked |-> s.err = ""]
          /\ UNCHANGED <<config, adopted, xlog, calls, tcp, rt, tunnel, app, sent, leaked>>

\* the device sends a frame while the call is in the loop, when nothing it
\* sent before is still unread; on TCP the network may deliver it in two parts
DeviceChunk ==
    /\ bulk.pc = "chunks"
    /\ conn = "open"
    /\ wire = <<>> /\ transit = <<>> /\ tcpBuffer = <<>>
    /\ \E f \in LoopFrames, cut \in (IF protocol = "tcp" THEN TcpCuts ELSE {0}) :
          \E d \in {Device(Machine, <<f>>, [frames |-> <<[re |-> TRUE]>>, cut |-> cut,
                                             arrive |-> 1, reset |-> FALSE])} :
             /\ wire' = d.wire
             /\ transit' = d.transit
             /\ owner' = d.owner
    /\ UNCHANGED <<config, conn, sessionID, replyID, lastData, tcpBuffer, adopted, ret,
                   xlog, calls, tcp, rt, tunnel, app, sent, leaked, bulk>>

NextChunks == BeginBulk \/ ChunkStep \/ FinalAck \/ DeviceChunk \/ Deliver

SpecChunks == InitChunks /\ [][NextChunks]_vars

\* The call keeps running: every read returns, with data or at its deadline,
\* and the code goes on to the next statement
SpecChunksFair == SpecChunks /\ WF_vars(ChunkStep) /\ WF_vars(FinalAck)

(***************************************************************************)
(* SpecSeq: one session on a fresh instance against a device that echoes   *)
(* the session id and the replyID of every request, over a network that    *)
(* may deliver a response late                                             *)
(***************************************************************************)
MaxExchanges == 5

EchoConnectAnswers == {T(CMD_ACK_OK, SidA, -1, <<>>, -1)}

EchoAnswers == {T(CMD_ACK_OK, -1, -1, <<7>>, -1)}

InitSeq == Start({<<>>, <<[opt |-> "WithProtocol", protocol |-> "tcp"]>>})

\* the replyID fields of the packets of the exchanges of xs that succeeded
Transmitted(xs) ==
    LET ok == SelectSeq(xs, LAMBDA x : x.got /\ x.err = "")
    IN [i \in 1..Len(ok) |-> Uint16(Slice(ok[i].pkt, 6, 8))]

SeqConnect ==
    /\ calls = 0
    /\ \E e1 \in EnvsOpen(One(EchoConnectAnswers)) :
          \E r \in {Connect(Machine, tcpmuxEnabled, password,
                            [dialOk |-> TRUE, proxy |-> NoProxy, e1 |-> e1, e2 |-> NoEnv])} :
             /\ Outcome("Connect", r, <<>>, FALSE)
             /\ adopted' = IF r.err # "" THEN NoSession
                           ELSE [cmd |-> parsePacket(r.xs[1].raw).Command,
                                 sid |-> parsePacket(r.xs[1].raw).SessionID]
             /\ sent' = sent \o Transmitted(r.xs)

SeqCommand ==
    /\ calls >= 1
    /\ calls < MaxExchanges
    /\ conn = "open"
    /\ \E env \in EnvsOpen(One(EchoAnswers)) :
          \E c \in {command(Machine, CMD_GET_TIME, <<>>, "general", env)} :
             /\ Outcome("command", [m |-> c.m, err |-> c.err, resp |-> c.resp,
                                     xs |-> <<c.x>>], <<>>, FALSE)
             /\ sent' = sent \o Transmitted(<<c.x>>)
             /\ UNCHANGED adopted

NextSeq == SeqConnect \/ SeqCommand \/ Deliver

SpecSeq == InitSeq /\ [][NextSeq]_vars

(***************************************************************************)
(* The pure functions of the codec, applied to arguments of bounded sets   *)
(***************************************************************************)
\* everything but the record of the application
client == <<config, conn, sessionID, replyID, lastData, tcpBuffer, wire, transit, owner,
            adopted, ret, xlog, calls, tcp, rt, tunnel, sent, leaked, bulk>>

InitCodec == Start({<<>>})

HeaderCommands == {CMD_CONNECT, CMD_ACK_AUTH, CMD_GET_TIME, CMD_REG_EVENT}

\* session ids and reply ids of 16 bits: the ends of the range, the values next
\* to them, and values on both sides of a byte boundary
HeaderSessionIds == {0, SidA, ushrtMax}
HeaderReplyIds == {0, 1, 255, 256, 65533, InitialReplyID, ushrtMax}

HeaderPayloads == {<<>>, <<7>>, <<255, 255>>, <<1, 2, 3>>}

\* Each behaviour of the codec specification is one application of one function
\* to one input.
ApplyCreateHeader ==
    /\ app.fn = NoApp.fn
    /\ \E cmd \in HeaderCommands, sid \in HeaderSessionIds, rid \in HeaderReplyIds,
          data \in HeaderPayloads :
          app' = [fn |-> "createHeader", args |-> <<cmd, sid, rid, data>>,
                  out |-> createHeader(cmd, sid, rid, data)]
    /\ UNCHANGED client

\* date-times of the years 2000 to 2099: the first and the last year, a leap
\* year, and the years on both sides of the packed value 2^31
TimeYears == {2000, 2024, 2067, 2068, 2099}
TimeMonths == {1, 2, 3, 12}
TimeDays == {1, 10, 28, 29, 30, 31}
TimeHours == {0, 2, 23}
TimeMinutes == {0, 59}
TimeSeconds == {0, 59}

DaysIn(year, month) ==
    IF month = 2 THEN (IF year % 4 = 0 THEN 29 ELSE 28)
    ELSE IF month \in {4, 6, 9, 11} THEN 30 ELSE 31

DateTimes ==
    {t \in [year : TimeYears, month : TimeMonths, day : TimeDays, hour : TimeHours,
            minute : TimeMinutes, second : TimeSeconds] : t.day <= DaysIn(t.year, t.month)}

\* the local zone of the host: one without transitions, and one that skips the
\* hour from 02:00 on 10 March 2024 (America/New_York)
LocalZones ==
    {[name |-> "UTC", skipped |-> {}],
     [name |-> "America/New_York", skipped |-> {<<2024, 3, 10, 2>>}]}

\* decodeTime(encodeTime(t)) on a host of some local zone
ApplyTimeRoundTrip ==
    /\ app.fn = NoApp.fn
    /\ \E t \in DateTimes, zone \in LocalZones :
          \E back \in decodeTime(encodeTime(t), zone) :
             app' = [fn |-> "decodeTime(encodeTime)", args |-> <<t, zone.name>>,
                     out |-> [packed |-> encodeTime(t), time |-> back]]
    /\ UNCHANGED client

\* the event types: the nine the decoder knows, one of two flags and one that
\* is no known flag
EventTypes ==
    {EF_ATTLOG, EF_FINGER, EF_ENROLLUSER, EF_ENROLLFINGER, EF_BUTTON, EF_UNLOCK,
     EF_VERIFY, EF_FPFTR, EF_ALARM, EF_ATTLOG + EF_FINGER, 64}

\* the lengths of a frame: without and with a whole header, and with a payload
\* around the lengths the decoder tests for
EventLengths == {6, 7, 8, 9, 10, 16, 17, 18, 39, 40, 41}

\* the bytes of a payload: a user id that ends in zero bytes, then bytes that
\* are, or are not, a date
EventData(dated) ==
    [i \in 1..33 |-> IF i \in 8..9 THEN 0
                     ELSE IF dated /\ i \in 27..32
                     THEN <<24, 3, 10, 2, 30, 0>>[i - 26]
                     ELSE 100 + i]

\* every frame of the type checked by the filter of the loop
AllEvents == 65535

\* decodeRealTimeEvent on a frame that passed the filter
ApplyDecodeRealTimeEvent ==
    /\ app.fn = NoApp.fn
    /\ \E type \in EventTypes, len \in EventLengths, dated \in BOOLEAN :
          \E frame \in {EventFrame(CMD_REG_EVENT, type, EventData(dated), len)} :
             /\ eventMatches(frame, AllEvents)
             /\ app' = [fn |-> "decodeRealTimeEvent",
                        args |-> <<frame, Uint16(Slice(frame, 4, 6))>>,
                        out |-> decodeRealTimeEvent(frame, Uint16(Slice(frame, 4, 6)))]
    /\ UNCHANGED client

\* the buffers of the frame of p: the frame, the frame with another frame
\* behind it, and every proper prefix of the frame; each with the bytes that
\* follow the frame in it
FrameBuffers(p) ==
    {[buf |-> wrapTCP(p) \o rest, rest |-> rest] :
        rest \in {<<>>} \cup {wrapTCP(q) : q \in TcpPayloads}}
    \cup {[buf |-> Slice(wrapTCP(p), 0, n), rest |-> <<>>] : n \in 0..(Len(wrapTCP(p)) - 1)}

\* extractTCPPacket on a buffer that starts with the frame of p or a part of it
ApplyExtractTCPPacket ==
    /\ app.fn = NoApp.fn
    /\ \E p \in TcpPayloads :
          \E b \in FrameBuffers(p) :
             app' = [fn |-> "extractTCPPacket", args |-> <<b.buf, p, b.rest>>,
                     out |-> extractTCPPacket(b.buf)]
    /\ UNCHANGED client

\* the byte sequences summed: every one of up to MaxChecksumLen bytes that are
\* 0, 1 or 255
MaxChecksumLen == 5

ChecksumInputs == SeqsUpTo({0, 1, 255}, MaxChecksumLen)

ApplyCalculateChecksum ==
    /\ app.fn = NoApp.fn
    /\ \E data \in ChecksumInputs :
          app' = [fn |-> "calculateChecksum", args |-> <<data>>,
                  out |-> calculateChecksum(data)]
    /\ UNCHANGED client

\* passwords below 2^31 and session ids: the ends of the ranges, and values
\* whose sum carries from the low half of the reversed password into the high
\* half and out of it
KeyPasswords == {0, 1, 2, 55, 65535, 65536, 131071, 12345678, 2147483647}

KeySessionIds == {0, 1, 255, 256, SidA, 65535}

ApplyMakeCommKey ==
    /\ app.fn = NoApp.fn
    /\ \E key \in KeyPasswords, sid \in KeySessionIds :
          app' = [fn |-> "makeCommKey", args |-> <<key, sid>>, out |-> makeCommKey(key, sid)]
    /\ UNCHANGED client

NextCodec ==
    \/ ApplyCreateHeader
    \/ ApplyMakeCommKey
    \/ ApplyCalculateChecksum
    \/ ApplyTimeRoundTrip
    \/ ApplyDecodeRealTimeEvent
    \/ ApplyExtractTCPPacket

SpecCodec == InitCodec /\ [][NextCodec]_vars

(***************************************************************************)
(* Properties of the session engine                                        *)
(***************************************************************************)
\* the session-id field of a response of at least 6 bytes
RespSid(resp) == Uint16(Slice(resp, 4, 6))

\* the exchange of a call of command or commandData that received a response
\* carrying a session id other than the one adopted from an ack-ok CONNECT
ForeignAnswer(op) ==
    /\ ret.op = op
    /\ adopted.cmd = CMD_ACK_OK
    /\ xlog[1].got
    /\ Len(xlog[1].raw) >= 6
    /\ RespSid(xlog[1].raw) # adopted.sid

\* C1 as stated: after a Connect answered ack-ok with session id S the engine's
\* sessionID is S, and every later exchange, general or bulk, whose response
\* carries another session id returns an error instead of the response.
C1_EveryExchangeEnforcesSession ==
    /\ adopted.cmd = CMD_ACK_OK => sessionID = adopted.sid
    /\ (ForeignAnswer("command") \/ ForeignAnswer("commandData"))
          => (ret.err # "" /\ ret.resp = <<>>)

\* C1 amended: after a Connect answered ack-ok with session id S the engine's
\* sessionID is S; when S # 0, every later non-bulk exchange whose response (of
\* at least 6 bytes) carries another session id returns a session-mismatch
\* error instead of the response.  A bulk exchange is not checked: such a
\* response is an error only if commandData rejects it for another reason.
C1_GeneralExchangeEnforcesSession ==
    /\ adopted.cmd = CMD_ACK_OK => sessionID = adopted.sid
    /\ (ForeignAnswer("command") /\ adopted.sid # 0)
          => (ret.err = "session mismatch" /\ ret.resp = <<>>)
    /\ (ForeignAnswer("commandData") /\ ret.err # "")
          => ret.err \in {"packet too short", "unexpected response command",
                          "PREPARE_DATA response too short", "receive chunk",
                          "receive final ACK"}

C1_Witness ==
    /\ ForeignAnswer("command")
    /\ adopted.sid = SidA
    /\ sessionID = SidA
    /\ ret.err = "session mismatch"

\* C2: a non-bulk exchange issued with sessionID # 0 that receives a response
\* with a session-id field: the exchange returns a session-mismatch error when
\* the field differs from sessionID, and the raw response when it is equal.
C2_SessionCheck ==
    \A i \in DOMAIN xlog :
       LET x == xlog[i]
       IN (x.cmdType = "general" /\ x.sid # 0 /\ x.got /\ Len(x.raw) >= 6)
             => IF RespSid(x.raw) # x.sid
                THEN x.err = "session mismatch" /\ x.resp = <<>>
                ELSE x.err = "" /\ x.resp = x.raw

C2_Witness ==
    /\ ret.op = "command"
    /\ xlog[1].sid = SidA
    /\ xlog[1].got
    /\ Len(xlog[1].raw) > 8
    /\ RespSid(xlog[1].raw) = SidA
    /\ ret.err = ""
    /\ ret.resp = xlog[1].raw

\* a Connect whose CONNECT exchange was answered with the unauthenticated code
Unauthenticated ==
    /\ ret.op = "Connect"
    /\ Len(xlog) >= 1
    /\ xlog[1].err = ""
    /\ parsePacket(xlog[1].raw).ok
    /\ parsePacket(xlog[1].raw).Command = CMD_ACK_UNAUTH

\* the AUTH packet of such a Connect: command 1102, session id S, payload
\* makeCommKey(P, S), written once (in the TCP envelope on tcp)
AuthPacketSent ==
    LET s == parsePacket(xlog[1].raw).SessionID
        a == xlog[2]
        p == parsePacket(a.pkt)
    IN /\ Len(xlog) = 2
       /\ p.Command = CMD_ACK_AUTH
       /\ p.SessionID = s
       /\ p.Data = makeCommKey(password, s)
       /\ a.sent \in {<<>>, IF protocol = "tcp" THEN wrapTCP(a.pkt) ELSE a.pkt}
       /\ a.sent = <<>> => a.err \in {"write", "not connected"}

\* C3 as stated: answered unauthenticated with session id S, Connect sends one
\* AUTH packet with payload makeCommKey(P, S); it succeeds if the reply code is
\* ack-ok, and for any other reply code fails and closes the connection.
C3_AuthByReplyCode ==
    Unauthenticated =>
       /\ AuthPacketSent
       /\ (xlog[2].got /\ Len(xlog[2].raw) >= 8) =>
             IF Uint16(Slice(xlog[2].raw, 0, 2)) = CMD_ACK_OK
             THEN ret.err = "" /\ conn = "open"
             ELSE ret.err # "" /\ conn = "closed"

\* C3 amended: answered unauthenticated with session id S, Connect performs one
\* AUTH exchange with payload makeCommKey(P, S); it succeeds if and only if the
\* reply is received, has at least 8 bytes, passes the session check (S = 0 or
\* the reply carries S) and has code ack-ok; in every other case it returns an
\* error and the connection is closed.
C3_AuthHandshake ==
    Unauthenticated =>
       /\ AuthPacketSent
       /\ LET a == xlog[2]
              s == parsePacket(xlog[1].raw).SessionID
              accepted == /\ a.got
                          /\ Len(a.raw) >= 8
                          /\ (s = 0 \/ RespSid(a.raw) = s)
                          /\ Uint16(Slice(a.raw, 0, 2)) = CMD_ACK_OK
          IN IF accepted
             THEN ret.err = "" /\ conn = "open" /\ sessionID = s
             ELSE ret.err \in {"auth command", "parse auth response", "authentication failed"}
                  /\ conn = "closed"

C3_Witness ==
    /\ Unauthenticated
    /\ password = 55
    /\ Len(xlog) = 2
    /\ parsePacket(xlog[2].pkt).Data = <<97, 145, 50, 120>>
    /\ parsePacket(xlog[2].raw).Command = CMD_ACK_OK
    /\ ret.err = ""

\* C4: every Connect builds its CONNECT packet with sessionID 0, an empty
\* payload and current replyID 65534: the checksum is that of the packet with
\* replyID 65534 and the replyID field transmitted is 0.
C4_ConnectPacketFresh ==
    (ret.op = "Connect" /\ Len(xlog) >= 1) =>
       LET x == xlog[1]
           p == parsePacket(x.pkt)
       IN /\ p.Command = CMD_CONNECT
          /\ p.SessionID = 0
          /\ p.Data = <<>>
          /\ x.rid = InitialReplyID
          /\ p.ReplyID = 0
          /\ p.Checksum = calculateChecksum(<<232, 3, 0, 0, 0, 0, 254, 255>>)

\* C5: the response an exchange returns is the device's reply to that very
\* request, never a frame that was sent before it.
C5_ResponseMatchesRequest ==
    \A i \in DOMAIN xlog : xlog[i].got => xlog[i].tag = 1

\* C6: an exchange that returns an error leaves replyID and lastData as they
\* were before the call; one that succeeds sets replyID to the next replyID and
\* lastData to the raw response.
C6_ErrorLeavesBookkeeping ==
    \A i \in DOMAIN xlog :
       LET x == xlog[i]
       IN IF x.err # ""
          THEN x.postReplyID = x.preReplyID /\ x.postLastData = x.preLastData
          ELSE x.postReplyID = x.next /\ x.postLastData = x.raw

(***************************************************************************)
(* Properties of the TCP receive path                                      *)
(***************************************************************************)
\* the bytes of the frames not returned yet
Undelivered == WrapAll(SubSeq(tcp.frames, Len(tcp.delivered) + 1, Len(tcp.frames)))

\* C7: on a stream of valid frames cut into reads in any way, with receive
\* calls timing out anywhere, the calls return the payloads of the frames in
\* wire order, each once, and no byte read is lost: the buffer followed by the
\* unread bytes is always exactly the frames not returned yet.
C7_FramesInOrder ==
    tcp.valid =>
       /\ Len(tcp.delivered) <= Len(tcp.frames)
       /\ tcp.delivered = SubSeq(tcp.frames, 1, Len(tcp.delivered))
       /\ tcpBuffer \o Flatten(wire) \o Flatten(transit) = Undelivered
       /\ (ret.op \in {"recvData", "readNextTCPPayload"} /\ ret.err = "")
             => ret.resp = tcp.frames[Len(tcp.delivered)]
       /\ (ret.op \in {"recvData", "readNextTCPPayload"} /\ ret.err # "")
             => (ret.err = "timeout" /\ ~extractTCPPacket(tcpBuffer).ok)

C7_Witness ==
    /\ tcp.valid
    /\ tcp.stalled
    /\ Len(tcp.frames) = 2
    /\ tcp.frames[1] # tcp.frames[2]
    /\ tcp.delivered = tcp.frames
    /\ tcpBuffer = <<>>

\* the buffer holds at least 8 bytes that do not start with the magic
Desynchronised(buf) == Len(buf) >= 8 /\ SubSeq(buf, 1, 4) # tcpMagic

\* C8: a receive on a buffer of at least 8 bytes that does not start with the
\* magic fails with a desynchronisation error and reads nothing more.
C8_DesyncIsFatal ==
    (ret.op \in {"recvData", "readNextTCPPayload"} /\ Desynchronised(tcp.pre))
       => (ret.err = "desync" /\ tcpBuffer = tcp.pre)

(***************************************************************************)
(* Properties of the bulk transfer                                         *)
(***************************************************************************)
\* the frames a call consumed: those pending before it and those the device
\* sent in answer, less those still pending
Consumed == xlog[1].backlog + Len(xlog[1].answer) - Len(owner)

\* a bulk request whose immediate response was received and has a header
BulkAnswered ==
    /\ ret.op = "commandData"
    /\ xlog[1].got
    /\ Len(xlog[1].raw) >= 8

BulkCode == Uint16(Slice(xlog[1].raw, 0, 2))

ChunkReceiverErrors == {"PREPARE_DATA response too short", "receive chunk", "receive final ACK"}

\* C9 as stated: prepare-data delegates to the chunk receiver; ack-data and
\* ack-ok return the payload of the response without receiving another frame;
\* every other code is an unexpected-response error.
C9_DispatchReturnsPayload ==
    BulkAnswered =>
       IF BulkCode = CMD_PREPARE_DATA
       THEN ret.err \in ChunkReceiverErrors \cup {""}
       ELSE IF BulkCode \in {CMD_ACK_DATA, CMD_ACK_OK}
       THEN ret.err = "" /\ ret.resp = parsePacket(xlog[1].raw).Data /\ Consumed = 1
       ELSE ret.err = "unexpected response command"

\* C9 amended: prepare-data delegates to the chunk receiver; ack-data and
\* ack-ok return the whole raw response (its 8-byte header followed by its
\* payload) without receiving another frame; every other code is an
\* unexpected-response error.
C9_Dispatch ==
    BulkAnswered =>
       IF BulkCode = CMD_PREPARE_DATA
       THEN /\ ret.err \in ChunkReceiverErrors \cup {""}
            /\ ret.err = "PREPARE_DATA response too short" <=> Len(xlog[1].raw) < 12
            /\ (ret.err = "" /\ Uint32(Slice(xlog[1].raw, 8, 12)) > 0)
                  => (ret.chunks # <<>> /\ ret.acked /\ Consumed = Len(ret.chunks) + 2)
       ELSE IF BulkCode \in {CMD_ACK_DATA, CMD_ACK_OK}
       THEN /\ ret.err = ""
            /\ ret.resp = xlog[1].raw
            /\ Consumed = 1
            /\ ret.chunks = <<>> /\ ~ret.acked
       ELSE /\ ret.err = "unexpected response command"
            /\ ret.resp = <<>>
            /\ Consumed = 1

C9_Witness ==
    /\ BulkAnswered
    /\ BulkCode = CMD_ACK_DATA
    /\ ret.err = ""
    /\ ret.resp = xlog[1].raw
    /\ Len(ret.resp) = 10
    /\ Consumed = 1

\* the answer to the bulk request is a transfer: a prepare-data response, chunk
\* frames of 8 header bytes and some data bytes whose total is the advertised
\* one, and a trailing acknowledgement; all of it arrived, and nothing else was
\* pending
IsTransfer ==
    LET a == xlog[1].answer
    IN /\ ret.op = "commandData"
       /\ xlog[1].backlog = 0
       /\ xlog[1].arrived
       /\ Len(a) >= 3
       /\ Len(a[1]) >= 12
       /\ Uint16(Slice(a[1], 0, 2)) = CMD_PREPARE_DATA
       /\ \A k \in 2..(Len(a) - 1) : Len(a[k]) >= 8
       /\ Uint32(Slice(a[1], 8, 12)) = Sum([k \in 1..(Len(a) - 2) |-> Len(a[k + 1]) - 8])

\* the chunk frames of that transfer, and the buffer the claim expects
SentChunks == SubSeq(xlog[1].answer, 2, Len(xlog[1].answer) - 1)

ExpectedBuffer ==
    SentChunks[1]
    \o Flatten([k \in 1..(Len(SentChunks) - 1) |->
                   Slice(SentChunks[k + 1], 8, Len(SentChunks[k + 1]))])

\* the call returned the expected buffer, having consumed the prepare-data
\* response, every chunk and one frame more (the acknowledgement)
Reconstructed ==
    /\ ret.err = ""
    /\ ret.resp = ExpectedBuffer
    /\ ret.chunks = SentChunks
    /\ ret.acked
    /\ Consumed = Len(xlog[1].answer)
    /\ owner = <<>>
    /\ lastData = xlog[1].answer[Len(xlog[1].answer)]

\* C10 as stated: for every such transfer the returned buffer is the first
\* frame whole followed by the data bytes of each continuation frame, and one
\* further frame is consumed after the last chunk.
C10_TransferReconstructedAlways == IsTransfer => Reconstructed

\* C10 amended: the same, for transfers that advertise a total above zero and
\* whose continuation frames each carry at least one data byte.
C10_TransferReconstructed ==
    (/\ IsTransfer
     /\ Uint32(Slice(xlog[1].answer[1], 8, 12)) > 0
     /\ \A k \in 2..Len(SentChunks) : Len(SentChunks[k]) > 8)
       => Reconstructed

C10_Witness ==
    /\ IsTransfer
    /\ Len(SentChunks) = 2
    /\ Len(SentChunks[1]) > 8
    /\ Len(SentChunks[2]) > 9
    /\ Reconstructed
    /\ protocol = "tcp"

\* the immediate response of the bulk request is a prepare-data response
\* advertising BulkTotal bytes
BulkPrepared ==
    /\ BulkAnswered
    /\ BulkCode = CMD_PREPARE_DATA
    /\ Len(xlog[1].raw) >= 12

BulkTotal == Uint32(Slice(xlog[1].raw, 8, 12))

\* the bytes the chunk loop counts for the chunk frames received
Counted(chunks) ==
    Sum([k \in 1..Len(chunks) |->
            IF Len(chunks[k]) > 8 THEN Len(chunks[k]) - 8
            ELSE IF k = 1 THEN 0 ELSE Len(chunks[k])])

\* C11: when the chunk loop has received the advertised total and no frame is
\* received after the last chunk (a timeout or a read error), the bulk
\* exchange returns the final-acknowledgement error and none of the data.
C11_AckFailureDropsData ==
    (/\ BulkPrepared
     /\ BulkTotal > 0
     /\ Counted(ret.chunks) >= BulkTotal
     /\ Consumed = Len(ret.chunks) + 1)
       => (ret.err = "receive final ACK" /\ ret.resp = <<>> /\ ~ret.acked)

C11_Witness ==
    /\ BulkPrepared
    /\ BulkTotal = 2
    /\ Len(ret.chunks) = 2
    /\ Counted(ret.chunks) = 2
    /\ Consumed = 3
    /\ conn = "reset"
    /\ ret.err = "receive final ACK"
    /\ ret.resp = <<>>

\* C12: when the prepare-data response advertises a total of zero the bulk
\* exchange returns an empty result at once: no chunk frame and no trailing
\* frame is received, whatever the device sent after the response stays
\* pending, and the next exchange receives a pending frame as its response.
C12_ZeroTotalReceivesNothing ==
    /\ (BulkPrepared /\ BulkTotal = 0)
          => /\ ret.err = "" /\ ret.resp = <<>>
             /\ ret.chunks = <<>> /\ ~ret.acked
             /\ Consumed = 1
             /\ Len(owner) = xlog[1].backlog + Len(xlog[1].answer) - 1
    /\ (ret.op = "command" /\ xlog[1].backlog > 0 /\ xlog[1].got) => xlog[1].tag = 0

C12_Witness ==
    /\ BulkPrepared
    /\ BulkTotal = 0
    /\ Len(xlog[1].answer) = 3
    /\ xlog[1].arrived
    /\ Len(owner) = 2
    /\ ret.err = ""
    /\ ret.resp = <<>>


(***************************************************************************)
(* Properties of the event listener                                        *)
(***************************************************************************)
\* bit i of v is set
TypeBit(v, i) == (v \div (2 ^ i)) % 2 = 1

\* the frame is an event of a subscribed type: at least 6 bytes, led by the
\* reg-event command, and a bit of its event type is a bit of the mask
Subscribed(frame, mask) ==
    /\ Len(frame) >= 6
    /\ frame[1] + 256 * frame[2] = CMD_REG_EVENT
    /\ \E i \in 0..15 : TypeBit(frame[5] + 256 * frame[6], i) /\ TypeBit(mask, i)

\* C13: while listening, the callback is invoked with a received frame if and
\* only if the frame has at least 6 bytes, its command field is reg-event and
\* its event type shares a bit with the mask; a frame received never ends the
\* loop, whether it is handed to the callback or dropped.
C13_HandlerIffSubscribed ==
    rt.got => /\ rt.invoked <=> Subscribed(rt.last, rt.mask)
              /\ rt.pc = "listening"
              /\ ret.op # "GetRealTimeEvents"

\* an event of two types, one of them subscribed, reached the callback
C13_Witness ==
    /\ rt.got
    /\ rt.invoked
    /\ rt.mask = EF_FINGER + EF_VERIFY
    /\ rt.last = EventFrame(CMD_REG_EVENT, EF_ATTLOG + EF_VERIFY, <<>>, 8)
    /\ rt.pc = "listening"

\* the registration exchange of the call failed, or its response is not an
\* ack-ok packet
RegistrationFailed ==
    /\ calls = 1
    /\ Len(xlog) = 1
    /\ xlog[1].cmd = CMD_REG_EVENT
    /\ \/ ~xlog[1].got
       \/ xlog[1].err # ""
       \/ Len(xlog[1].raw) < 8
       \/ xlog[1].raw[1] + 256 * xlog[1].raw[2] # CMD_ACK_OK

RegistrationErrors ==
    {"register events", "parse reg event response", "register events: error response"}

\* C14: when the registration exchange fails or its response is anything but
\* ack-ok, the call has returned a registration error, no receive of the loop
\* was made (nothing beyond the response of the exchange was taken from the
\* socket) and the callback was not invoked.
C14_RegistrationErrorNoListen ==
    RegistrationFailed =>
        /\ rt.pc = "returned"
        /\ ret.op = "GetRealTimeEvents"
        /\ ret.err \in RegistrationErrors
        /\ ~rt.polled /\ ~rt.got /\ ~rt.invoked
        /\ Len(owner) = Len(xlog[1].answer) - (IF xlog[1].got THEN 1 ELSE 0)

\* the device answered the registration with ack-error
C14_Witness ==
    /\ RegistrationFailed
    /\ xlog[1].got
    /\ Len(xlog[1].raw) = 8
    /\ Uint16(Slice(xlog[1].raw, 0, 2)) = CMD_ACK_ERROR
    /\ ret.err = "register events: error response"
    /\ rt.pc = "returned"
    /\ ~rt.polled

\* C15: a receive of the loop that ends with a timeout leaves the call in the
\* loop, with no error returned; the call returns normally only once the
\* overall deadline has elapsed; a receive error that is not a timeout ends
\* the call with the receive error at once, and nothing else does.
C15_TimeoutsAreNotFailures ==
    /\ rt.perr = "timeout" => (rt.pc = "listening" /\ ret.op # "GetRealTimeEvents")
    /\ (rt.pc = "returned" /\ ret.err = "") => (rt.timeout > 0 /\ rt.elapsed >= rt.timeout)
    /\ rt.perr \notin {"", "timeout"} => (rt.pc = "returned" /\ ret.err = "receive event")
    /\ (rt.pc = "returned" /\ ret.err = "receive event") => rt.perr \notin {"", "timeout"}

\* a read of the loop timed out with half a frame in the buffer, and the call
\* listens on
C15_Witness ==
    /\ rt.perr = "timeout"
    /\ rt.pc = "listening"
    /\ rt.polled
    /\ tcpBuffer # <<>>
    /\ rt.elapsed > 0
    /\ conn = "open"

\* C16: with an overall timeout, a call that is listening eventually returns,
\* whatever the device sends and whenever; without one (timeout 0) the call
\* never returns normally, and once listening it returns only with the error
\* of a receive that failed otherwise than by a timeout.
C16_ReturnsIffTimeout ==
    /\ (rt.pc = "listening" /\ rt.timeout > 0) ~> (rt.pc = "returned")
    /\ []((rt.pc = "returned" /\ rt.timeout = 0) =>
             /\ ret.err # ""
             /\ ~RegistrationFailed => (ret.err = "receive event"
                                        /\ rt.perr \notin {"", "timeout"}))

\* a call with the longest overall timeout listened and returned normally
C16_Witness ==
    /\ rt.pc = "returned"
    /\ rt.timeout = MaxTimeout
    /\ rt.elapsed >= rt.timeout
    /\ rt.polled
    /\ ret.op = "GetRealTimeEvents"
    /\ ret.err = ""
    /\ conn = "open"

\* C17: from the call of GetRealTimeEvents on, in the loop and after each of
\* its exits, the session id is the one of the session and the client has not
\* closed the socket: it is open, unless the peer has reset the connection.
C17_ListenerLeavesSession ==
    calls = 1 =>
        /\ sessionID = SidA
        /\ conn \in {"open", "reset"}
        /\ conn = "reset" => rt.peer

\* the call ended with a fatal receive error after the peer reset the
\* connection, and the client has neither closed the socket nor dropped the
\* session
C17_Witness ==
    /\ rt.pc = "returned"
    /\ ret.op = "GetRealTimeEvents"
    /\ ret.err = "receive event"
    /\ rt.peer
    /\ conn = "reset"
    /\ sessionID = SidA

(***************************************************************************)
(* Properties of the tunnel                                                *)
(***************************************************************************)
\* C18: on a client with the tunnel enabled, every packet sent is wrapped in
\* the TCP envelope, whatever protocol option was given and in whatever order.
C18_TunnelUsesTcpFraming ==
    tcpmuxEnabled =>
        \A i \in DOMAIN xlog :
            xlog[i].sent # <<>> => xlog[i].sent = wrapTCP(xlog[i].pkt)

\* the last Connect went through a proxy whose status line lacks " 200 ", or
\* whose headers ended before the blank line
ProxyRefused ==
    /\ ret.op = "Connect"
    /\ tcpmuxEnabled
    /\ tunnel.writeOk
    /\ \/ ~Contains(ReadString(tunnel.stream).line, <<" ", "2", "0", "0", " ">>)
       \/ ~\E i \in 2..(Len(tunnel.stream) - 1) :
              /\ tunnel.stream[i - 1] = "\n"
              /\ SubSeq(tunnel.stream, i, i + 1) = CRLF

\* C19: in tunnel mode, when the proxy's status line does not contain " 200 "
\* or its headers cannot be read up to the blank line, Connect returns the
\* handshake error, the socket dialled is closed and forgotten, and no packet
\* of the protocol was written.
C19_RefusedTunnelSendsNothing ==
    ProxyRefused =>
        /\ ret.err = "tcpmux handshake"
        /\ tunnel.closed
        /\ conn = "nil"
        /\ xlog = <<>>

\* the proxy answered 502 with complete headers
C19_Witness ==
    /\ ProxyRefused
    /\ tunnel.stream = Status502 \o CRLF \o CRLF
    /\ tunnel.err = "proxy returned"
    /\ ret.err = "tcpmux handshake"
    /\ conn = "nil"
    /\ xlog = <<>>

(***************************************************************************)
(* Properties of Disconnect                                                *)
(***************************************************************************)
\* C20: a call of Disconnect on a client whose socket is open issues one
\* command, EXIT, and whatever becomes of it (answered, not written, not
\* answered in time, answered for another session) the session id is 0 and the
\* socket closed and forgotten afterwards, and the call returns no error.
C20_DisconnectBestEffort ==
    [][(conn = "open" /\ calls' = calls + 1 /\ ret'.op = "Disconnect") =>
          /\ Len(xlog') = 1
          /\ xlog'[1].cmd = CMD_EXIT
          /\ xlog'[1].sid = sessionID
          /\ sessionID' = 0
          /\ conn' = "nil"
          /\ ret'.err = ""]_vars

\* the EXIT command of a Disconnect was answered for another session, and the
\* call returned no error
C20_Witness ==
    /\ ret.op = "Disconnect"
    /\ Len(xlog) = 1
    /\ xlog[1].preConn = "open"
    /\ xlog[1].cmd = CMD_EXIT
    /\ xlog[1].err = "session mismatch"
    /\ ret.err = ""
    /\ sessionID = 0
    /\ conn = "nil"

(***************************************************************************)
(* Properties of the session id and the reply id                           *)
(***************************************************************************)
\* C21: whenever no Connect has succeeded on the current connection (before
\* the first Connect, after a Connect that returned an error, after
\* Disconnect) the session id is 0.
C21_NoSessionNoId == adopted = NoSession => sessionID = 0

\* C22: while a session established by a successful Connect lasts, every step
\* other than a call of Disconnect or Connect (an exchange, a bulk transfer,
\* a listening call, a delivery of the network) leaves the session id at the
\* value adopted from the CONNECT response, whatever the responses carry.
C22_SessionIdFixed ==
    [][(adopted # NoSession
        /\ ~(calls' = calls + 1 /\ ret'.op \in {"Connect", "Disconnect"})) =>
          /\ sessionID' = sessionID
          /\ sessionID' = adopted.sid]_vars

\* a listening call, made after another call, whose registration was answered
\* for another session
C22_Witness ==
    /\ calls = 3
    /\ ret.op = "GetRealTimeEvents"
    /\ Len(xlog) = 1
    /\ xlog[1].got
    /\ Len(xlog[1].raw) >= 6
    /\ RespSid(xlog[1].raw) = SidB
    /\ adopted = [cmd |-> CMD_ACK_OK, sid |-> SidA]
    /\ sessionID = SidA

\* C23: for every replyID of 16 bits, createHeader returns as the next replyID
\* (replyID + 1) mod 65535.
C23_NextReplyIdMod ==
    app.fn = "createHeader" => app.out.next = (app.args[3] + 1) % 65535

\* C25: the packet createHeader returns is the command, the checksum of the
\* packet serialized with checksum 0 and the replyID given, the session id,
\* the next replyID it returns, and the payload unchanged.
C25_PacketLayout ==
    app.fn = "createHeader" =>
        LET cmd == app.args[1]
            sid == app.args[2]
            rid == app.args[3]
            data == app.args[4]
            pkt == app.out.pkt
        IN /\ Len(pkt) = 8 + Len(data)
           /\ pkt[1] + 256 * pkt[2] = cmd
           /\ pkt[3] + 256 * pkt[4] =
                  calculateChecksum(<<cmd % 256, cmd \div 256, 0, 0, sid % 256, sid \div 256,
                                      rid % 256, rid \div 256>> \o data)
           /\ pkt[5] + 256 * pkt[6] = sid
           /\ pkt[7] + 256 * pkt[8] = app.out.next
           /\ SubSeq(pkt, 9, Len(pkt)) = data

\* the CONNECT packet of a fresh instance: checksum of replyID 65534, replyID
\* field 0
C25_Witness ==
    /\ app.fn = "createHeader"
    /\ app.args = <<CMD_CONNECT, 0, InitialReplyID, <<>>>>
    /\ app.out.pkt = <<232, 3, 23, 252, 0, 0, 0, 0>>
    /\ app.out.next = 0

\* C24: for every date-time of the years 2000 to 2099 with a day valid for its
\* month, decodeTime(encodeTime(t)) has the second, minute, hour, day, month
\* and year of t.
C24_TimeRoundTrip ==
    app.fn = "decodeTime(encodeTime)" => app.out.time = app.args[1]

\* the packet createHeader builds: the replyID its checksum is computed
\* against, and the replyID field it transmits
BuiltFrom(x, rid) ==
    /\ Len(x.pkt) >= 8
    /\ Uint16(Slice(x.pkt, 2, 4)) =
          calculateChecksum(PutUint16(x.cmd) \o <<0, 0>> \o PutUint16(x.sid)
                            \o PutUint16(rid) \o x.data)
    /\ Uint16(Slice(x.pkt, 6, 8)) = NextReplyID(rid)

\* C26: an exchange that starts with a response of at least 8 bytes on record
\* builds its packet from the replyID in bytes 6..8 of that response (checksum
\* computed against it, its successor transmitted), not from the stored
\* replyID; with no such response on record it builds it from the stored one.
C26_PrimedByEcho ==
    \A i \in 1..Len(xlog) :
       IF Len(xlog[i].preLastData) >= 8
       THEN BuiltFrom(xlog[i], Uint16(Slice(xlog[i].preLastData, 6, 8)))
       ELSE BuiltFrom(xlog[i], xlog[i].preReplyID)

\* an exchange built from an echoed replyID that differs from the stored one
C26_Witness ==
    \E i \in 1..Len(xlog) :
       /\ Len(xlog[i].preLastData) >= 8
       /\ NextReplyID(Uint16(Slice(xlog[i].preLastData, 6, 8))) # NextReplyID(xlog[i].preReplyID)
       /\ Uint16(Slice(xlog[i].pkt, 6, 8)) = NextReplyID(Uint16(Slice(xlog[i].preLastData, 6, 8)))
       /\ xlog[i].got

(***************************************************************************)
(* Properties of the sequence of replyIDs of a session                     *)
(***************************************************************************)
\* C27: against a device that echoes the replyID of every request, the replyID
\* fields transmitted by the successive successful exchanges of a session that
\* starts with CONNECT on a fresh instance are 0, 1, 2, ...: each is the
\* previous one plus 1 modulo 65535.
C27_ReplyIdSequence ==
    \A i \in 1..Len(sent) : sent[i] = (i - 1) % 65535

(***************************************************************************)
(* Properties of the chunk receiver                                        *)
(***************************************************************************)
\* the chunk receiver returned the data of the chunks it received
ChunksReceived ==
    /\ BulkPrepared
    /\ BulkTotal > 0
    /\ ret.err = ""
    /\ ret.chunks # <<>>

\* the bytes of a chunk past its leading 8
PastHeader(chunk) == Slice(chunk, 8, Len(chunk))

C29_ReadDeadline ==
    rt.read # NoRead =>
       /\ rt.read.deadline <= OneSecond
       /\ rt.timeout > 0 => rt.read.deadline <= rt.timeout - rt.read.at
       /\ rt.timeout = 0 => rt.read.deadline = OneSecond

\* a poll with less than a second of the budget left
C29_Witness ==
    /\ rt.timeout = MaxTimeout
    /\ rt.read.at = MaxTimeout - 1
    /\ rt.read.deadline = 1
    /\ rt.read.deadline < OneSecond
    /\ rt.polled

(***************************************************************************)
(* Properties of the event decoder                                         *)
(***************************************************************************)
\* the shortest payload the decoder takes fields from, for each type it knows
MinLength ==
    [t \in {EF_ATTLOG, EF_ENROLLUSER, EF_VERIFY, EF_FINGER, EF_ENROLLFINGER, EF_FPFTR,
            EF_BUTTON, EF_UNLOCK, EF_ALARM} |->
        IF t = EF_ATTLOG THEN 32
        ELSE IF t \in {EF_ENROLLUSER, EF_VERIFY} THEN 9
        ELSE IF t \in {EF_FINGER, EF_ENROLLFINGER, EF_FPFTR} THEN 10
        ELSE 2]

\* C30: for every event type, a matched frame whose payload (the bytes past
\* byte 8) is shorter than the minimum length of that type, and every matched
\* frame of an unrecognized type, yields an event whose raw-data field holds
\* the payload bytes verbatim.
C30_RawDataKept ==
    app.fn = "decodeRealTimeEvent" =>
       LET frame == app.args[1]
           type == app.args[2]
           payload == Slice(frame, 8, Len(frame))
       IN (type \notin DOMAIN MinLength \/ Len(payload) < MinLength[type])
             => app.out.RawData = payload

(***************************************************************************)
(* Properties of the TCP framing functions                                 *)
(***************************************************************************)
\* C31: extractTCPPacket applied to wrapTCP(p) returns p and an empty
\* remainder; applied to wrapTCP(p1) followed by wrapTCP(p2) it returns p1 and
\* the bytes of wrapTCP(p2); applied to a proper prefix of wrapTCP(p) it
\* reports an incomplete frame and returns the buffer unchanged.
C31_ExtractWrapped ==
    app.fn = "extractTCPPacket" =>
       LET buf == app.args[1]
           p == app.args[2]
           rest == app.args[3]
       IN IF buf = wrapTCP(p) \o rest
          THEN app.out = [payload |-> p, remainder |-> rest, ok |-> TRUE]
          ELSE app.out = [payload |-> <<>>, remainder |-> buf, ok |-> FALSE]

\* two frames in the buffer: the first is returned, the second is the remainder
C31_Witness ==
    /\ app.fn = "extractTCPPacket"
    /\ app.args[2] = <<208, 7, 0, 0, 42, 0, 1, 0>>
    /\ app.out.ok
    /\ app.out.payload = app.args[2]
    /\ app.out.remainder = <<80, 80, 130, 125, 9, 0, 0, 0, 244, 1, 0, 0, 1, 0, 0, 0, 9>>

(***************************************************************************)
(* Properties of the checksum and of the authentication key                *)
(***************************************************************************)
\* the sum of the little-endian 16-bit words of data and of its trailing odd
\* byte, as an integer
WordSum(data) ==
    Sum([i \in 1..((Len(data) + 1) \div 2) |->
            data[2 * i - 1] + (IF 2 * i <= Len(data) THEN 256 * data[2 * i] ELSE 0)])

\* C32: for every byte sequence the checksum is in 0..65534 and is what the
\* steps give: the words summed modulo 65535 (a sum above 65535 reduced by
\* 65535), the trailing odd byte added, the sum negated, one subtracted, and
\* 65535 added until the result is not negative.
C32_Checksum ==
    app.fn = "calculateChecksum" =>
       LET sum == WordSum(app.args[1])
           reduced == IF sum = 0 THEN 0 ELSE ((sum - 1) % 65535) + 1
       IN /\ app.out \in 0..65534
          /\ app.out = (2 * 65535 - reduced - 1) % 65535

\* an odd number of bytes whose words sum to 65535 before the last byte
C32_Witness ==
    /\ app.fn = "calculateChecksum"
    /\ app.args[1] = <<255, 255, 1>>
    /\ app.out = 65533

\* bits from..to of key in reverse order, as a number of to - from + 1 bits
Reversed(key, from, to) ==
    Sum([j \in 1..(to - from + 1) |->
            ((key \div 2 ^ (from + j - 1)) % 2) * 2 ^ (to - from + 1 - j)])

\* C33: makeCommKey returns the 4 bytes obtained by reversing the low 32 bits
\* of the password, adding the session id modulo 2^32, serializing
\* little-endian, XORing with "ZKSO", swapping the two 16-bit halves, XORing
\* bytes 0, 1 and 3 with 0x32 and setting byte 2 to 0x32; byte 2 is always 0x32
\* and makeCommKey(0, 0) is 0x61 0x7D 0x32 0x79.
C33_CommKey ==
    app.fn = "makeCommKey" =>
       LET key == app.args[1]
           sid == app.args[2]
           \* bit 31 of a password below 2^31 is 0
           low == 2 * Reversed(key, 16, 30) + sid
           high == (Reversed(key, 0, 15) + low \div 65536) % 65536
           b == <<low % 256, (low \div 256) % 256, high % 256, high \div 256>>
       IN /\ app.out = <<Xor(Xor(b[3], 83), 50), Xor(Xor(b[4], 79), 50), 50,
                         Xor(Xor(b[2], 75), 50)>>
          /\ app.out[3] = 50
          /\ (key = 0 /\ sid = 0) => app.out = <<97, 125, 50, 121>>

\* a password and a session id whose sum carries into the high half
C33_Witness ==
    /\ app.fn = "makeCommKey"
    /\ app.args = <<65536, 65535>>
    /\ app.out = <<96, 125, 50, 6>>

(***************************************************************************)
(* Properties of Connect and of the socket                                 *)
(***************************************************************************)
\* C34: Connect returns success only if the last handshake response it
\* received carried the ack-ok code: the CONNECT response was ack-ok, or it
\* was unauthenticated and the AUTH response was ack-ok.
C34_SuccessOnlyOnAckOk ==
    (ret.op = "Connect" /\ ret.err = "") =>
       /\ xlog # <<>>
       /\ parsePacket(xlog[Len(xlog)].raw).Command = CMD_ACK_OK
       /\ Len(xlog) = 2 => parsePacket(xlog[1].raw).Command = CMD_ACK_UNAUTH

\* C35: the instance never has more than one open socket: after any sequence
\* of Connect and Disconnect calls every socket it dialled other than its
\* current one has been closed.
C35_OneOpenSocket == ~leaked

\* the errors Connect returns after the dial succeeded
ConnectErrorsAfterDial ==
    {"tcpmux handshake", "connect command", "parse connect response", "auth command",
     "parse auth response", "authentication failed"}

\* C36: whenever Connect returns an error after the dial succeeded (tunnel
\* handshake failure, CONNECT exchange failure, unparsable CONNECT response,
\* AUTH exchange failure, unparsable AUTH response, non-ok AUTH response), the
\* socket dialled by that call has been closed.
C36_FailedConnectCloses ==
    (ret.op = "Connect" /\ ret.err # "") =>
       /\ ret.err \in ConnectErrorsAfterDial \cup {"dial"}
       /\ ret.err = "tcpmux handshake" => (tunnel.closed /\ conn = "nil")
       /\ ret.err \in ConnectErrorsAfterDial \ {"tcpmux handshake"} => conn = "closed"

\* an AUTH response that is not ack-ok: the socket is closed
C36_Witness ==
    /\ ret.op = "Connect"
    /\ ret.err = "authentication failed"
    /\ Len(xlog) = 2
    /\ parsePacket(xlog[2].raw).Command = CMD_ACK_ERROR
    /\ conn = "closed"

(***************************************************************************)
(* Properties of the replyID and of lastData across calls                  *)
(***************************************************************************)
\* C37: the replyID field of every packet the engine transmits is in
\* 0..65534, whatever replyID (0..65535) the device echoed in earlier
\* responses.
C37_ReplyIdField ==
    \A i \in 1..Len(xlog) :
       /\ Len(xlog[i].pkt) >= 8
       /\ Uint16(Slice(xlog[i].pkt, 6, 8)) \in 0..65534
       /\ xlog[i].sent # <<>> =>
             xlog[i].sent = IF protocol = "tcp" THEN wrapTCP(xlog[i].pkt) ELSE xlog[i].pkt

\* an exchange primed with an echoed replyID of 65535
C37_Witness ==
    \E i \in 1..Len(xlog) :
       /\ Len(xlog[i].preLastData) >= 8
       /\ Uint16(Slice(xlog[i].preLastData, 6, 8)) = 65535
       /\ xlog[i].sent # <<>>
       /\ Uint16(Slice(xlog[i].pkt, 6, 8)) = 0

\* C38: the frames the listening loop receives (matching events, filtered
\* frames, short frames) leave replyID and lastData unchanged: while the call
\* listens and after it returns both hold what the REG_EVENT exchange set, and
\* the next exchange is primed with the replyID echoed in its response.
C38_ListeningKeepsReplyId ==
    /\ [][rt.pc = "listening" => (replyID' = replyID /\ lastData' = lastData)]_vars
    /\ []((rt.pc \in {"listening", "returned"} /\ xlog[1].got) =>
             /\ lastData = xlog[1].raw
             /\ replyID = xlog[1].next
             /\ Len(xlog[1].raw) >= 8 =>
                   primeReplyID(Machine) = Uint16(Slice(xlog[1].raw, 6, 8)))

\* the loop has just handed a matching event to the callback
C38_Witness ==
    /\ rt.pc = "listening"
    /\ rt.got
    /\ rt.invoked
    /\ Len(rt.last) > 8
    /\ lastData = xlog[1].raw
    /\ lastData # rt.last
    /\ replyID = xlog[1].next

(***************************************************************************)
(* Properties of lastData after a bulk transfer                            *)
(***************************************************************************)
\* the last frame of the device's answer to the latest request
TrailingFrame == xlog[1].answer[Len(xlog[1].answer)]

\* a bulk request just returned from the chunk receiver with the data of a
\* transfer of non-zero total whose trailing frame has a header
TransferSucceeded ==
    /\ calls = 1
    /\ IsTransfer
    /\ BulkTotal > 0
    /\ ret.err = ""
    /\ Len(TrailingFrame) >= 8

\* lastData is the trailing frame, which is neither the prepare-data response
\* nor one of the frames received as chunks, and the next exchange is built
\* from the replyID in its bytes 6..8
PrimedByTrailingFrame ==
    /\ lastData = TrailingFrame
    /\ lastData # xlog[1].raw
    /\ ret.chunks = SentChunks
    /\ primeReplyID(Machine) = Uint16(Slice(TrailingFrame, 6, 8))

\* C39 as stated: after a bulk transfer that went through the chunk receiver
\* with a non-zero total and succeeded, lastData is the trailing
\* acknowledgement frame, not the prepare-data response nor a chunk, and the
\* next exchange is built from the replyID in bytes 6..8 of that frame.
C39_LastDataIsAckAlways ==
    /\ [](TransferSucceeded => PrimedByTrailingFrame)
    /\ [][TransferSucceeded =>
             BuiltFrom(xlog'[1], Uint16(Slice(TrailingFrame, 6, 8)))]_vars

\* C39 amended: after such a transfer lastData is the frame received after
\* the last chunk the loop counted, and the next exchange is built from the
\* replyID in its bytes 6..8 when it has a header; it is the trailing
\* acknowledgement frame when every continuation frame carries at least one
\* data byte.
C39_LastDataIsAck ==
    /\ []((ChunksReceived /\ xlog[1].backlog = 0) =>
             /\ ret.acked
             /\ lastData = xlog[1].answer[Len(ret.chunks) + 2]
             /\ Len(lastData) >= 8 => primeReplyID(Machine) = Uint16(Slice(lastData, 6, 8)))
    /\ []((TransferSucceeded /\ \A k \in 2..Len(SentChunks) : Len(SentChunks[k]) > 8)
             => PrimedByTrailingFrame)
    /\ [][(TransferSucceeded /\ \A k \in 2..Len(SentChunks) : Len(SentChunks[k]) > 8)
             => BuiltFrom(xlog'[1], Uint16(Slice(TrailingFrame, 6, 8)))]_vars

\* a transfer of two chunks returned whose acknowledgement carries a replyID
\* other than the one the prepare-data response echoed
C39_Witness ==
    /\ TransferSucceeded
    /\ Len(SentChunks) = 2
    /\ \A k \in 1..2 : Len(SentChunks[k]) > 8
    /\ ret.chunks = SentChunks
    /\ lastData = TrailingFrame
    /\ Uint16(Slice(lastData, 6, 8)) = 7
    /\ Uint16(Slice(xlog[1].raw, 6, 8)) # 7

(***************************************************************************)
(* Termination of the bulk exchange                                        *)
(***************************************************************************)
\* C40: every call of commandData that enters the chunk loop eventually
\* returns, whatever the device sends, when every read returns by its
\* deadline: the loop does not run forever on frames that add nothing to
\* the received count.
C40_BulkCallReturns == (bulk.pc = "chunks") ~> (bulk.pc = "returned")

====
